---- MODULE Spec2Model ----
(***************************************************************************)
(* The synchronisation core of the statusbar todo dock (src/src/todos.rs): *)
(* the session state machine of Todos::update, the futures it hands to the *)
(* runtime (login, connect, recv, send), the messages those futures post   *)
(* back to the event loop, and apply_operation on the task snapshot.       *)
(***************************************************************************)
EXTENDS Naturals, Sequences, FiniteSets, Bags, TLC

VARIABLES
    state,       \* Todos.state: the session variant with its fields
    nocache,     \* Todos.nocache
    cache,       \* the cache.json file of xdg_manager: None or Some(TodosCache)
    futures,     \* bag of futures spawned on the runtime and not yet completed
    dock,        \* Todos.expanded, Todos.focused, Todos.grabbed
    handled      \* history: the type of the message update handled last, and the
                 \* variant it met

vars == <<state, nocache, cache, futures, dock, handled>>

----------------------------------------------------------------------------
(* Bounds of the model *)

MaxInFlight == 2
MaxLive == 2

----------------------------------------------------------------------------
(* Option<T> and VecDeque<T> *)

None == <<>>
Some(x) == <<x>>
IsSome(o) == o /= None
Unwrap(o) == o[1]

\* Option's derived ordering: None sorts before every Some
OptionLe(a, b) == IF a = None THEN TRUE ELSE IF b = None THEN FALSE ELSE Unwrap(a) <= Unwrap(b)

\* iter().position(|x| x.id == id), zero-based
position(q, id) ==
    IF \E i \in 1..Len(q) : q[i].id = id
    THEN Some((CHOOSE i \in 1..Len(q) : q[i].id = id /\ \A j \in 1..(i - 1) : q[j].id /= id) - 1)
    ELSE None

\* a remove that leaves the element where it is
remove_keep(q, pos) == q

\* VecDeque::remove(index) leaves the others in order
remove(q, pos) == SubSeq(q, 1, pos) \o SubSeq(q, pos + 2, Len(q))

\* an insert that appends whatever the index
insert_back(q, pos, x) == Append(q, x)

\* VecDeque::insert(index, value) shifts the elements at index and after it back
insert(q, pos, x) == SubSeq(q, 1, pos) \o <<x>> \o SubSeq(q, pos + 1, Len(q))

\* a front that looks at the other end
front_last(q) == IF q = <<>> THEN None ELSE Some(q[Len(q)])

\* a back that looks at the other end
back_first(q) == IF q = <<>> THEN None ELSE Some(q[1])

\* VecDeque::front, back and get(index), the index counted from zero
front(q) == IF q = <<>> THEN None ELSE Some(q[1])
back(q) == IF q = <<>> THEN None ELSE Some(q[Len(q)])

\* a get that never finds an element
get_none(q, i) == None

get(q, i) == IF i < Len(q) THEN Some(q[i + 1]) ELSE None

\* a push at the back
push_back(q, x) == q \o <<x>>

push_front(q, x) == <<x>> \o q

\* a reversal that leaves the slice as it is
reverse_range_none(q, start, end) == q

\* s[start..=end].reverse()
reverse_range(q, start, end) ==
    [i \in 1..Len(q) |->
        IF i - 1 >= start /\ i - 1 <= end THEN q[start + end + 2 - i] ELSE q[i]]

----------------------------------------------------------------------------
(* The operation log model *)

LiveTask(id, value) == [id |-> id, value |-> value]
FinishedTask(id, value, status) == [id |-> id, value |-> value, status |-> status]
StateSnapshot(live, finished) == [live |-> live, finished |-> finished]

TaskStatus == {"Succeeded", "Failed", "Obsoleted"}

OverwriteState(s) == [kind |-> "OverwriteState", s |-> s]
InsLiveTask(value, id) == [kind |-> "InsLiveTask", value |-> value, id |-> id]
RestoreFinishedTask(id) == [kind |-> "RestoreFinishedTask", id |-> id]
EditLiveTask(id, value) == [kind |-> "EditLiveTask", id |-> id, value |-> value]
DelLiveTask(id) == [kind |-> "DelLiveTask", id |-> id]
MvLiveTask(id_del, id_ins) == [kind |-> "MvLiveTask", id_del |-> id_del, id_ins |-> id_ins]
RevLiveTask(id1, id2) == [kind |-> "RevLiveTask", id1 |-> id1, id2 |-> id2]
FinishLiveTask(id, status) == [kind |-> "FinishLiveTask", id |-> id, status |-> status]

\* an edit that ends whatever id the operation names
clear_always(active_id_val, id) == None

\* an edit that no operation closes
clear_never(active_id_val, id) == active_id_val

\* the active edit is cleared when the operation names the edited id
clear_if_active(active_id_val, id) ==
    IF IsSome(active_id_val) /\ Unwrap(active_id_val)[1] = id THEN None ELSE active_id_val

\* an edit that changes no task
edit_none(live, id, value) == live

edit_first(live, id, value) ==
    LET p == position(live, id) IN
    IF IsSome(p) THEN [live EXCEPT ![Unwrap(p) + 1].value = value] ELSE live

apply_operation(snapshot, active_id_val, op) ==
    LET live == snapshot.live
        finished == snapshot.finished
        same == [snapshot |-> snapshot, active_id_val |-> active_id_val]
    IN
    CASE op.kind = "OverwriteState" ->
            [snapshot |-> StateSnapshot(op.s.live, op.s.finished), active_id_val |-> None]
      [] op.kind = "InsLiveTask" ->
            [same EXCEPT !.snapshot.live = push_front(live, LiveTask(op.id, op.value))]
      [] op.kind = "RestoreFinishedTask" ->
            LET p == position(finished, op.id) IN
            IF IsSome(p)
            THEN LET t == finished[Unwrap(p) + 1] IN
                 [same EXCEPT !.snapshot = StateSnapshot(
                     push_front(live, LiveTask(t.id, t.value)),
                     remove(finished, Unwrap(p)))]
            ELSE same
      [] op.kind = "EditLiveTask" ->
            [same EXCEPT !.snapshot.live = edit_first(live, op.id, op.value)]
      [] op.kind = "DelLiveTask" ->
            [snapshot |-> StateSnapshot(SelectSeq(live, LAMBDA x : x.id /= op.id), finished),
             active_id_val |-> clear_if_active(active_id_val, op.id)]
      [] op.kind = "MvLiveTask" ->
            LET ins_pos == position(live, op.id_ins)
                del_pos == position(live, op.id_del)
            IN
            IF IsSome(ins_pos) /\ IsSome(del_pos)
            THEN LET removed == live[Unwrap(del_pos) + 1] IN
                 [same EXCEPT !.snapshot.live =
                     insert(remove(live, Unwrap(del_pos)), Unwrap(ins_pos), removed)]
            ELSE same
      [] op.kind = "RevLiveTask" ->
            LET pos1 == position(live, op.id1)
                pos2 == position(live, op.id2)
                start_pos == IF OptionLe(pos1, pos2) THEN pos1 ELSE pos2
                end_pos == IF OptionLe(pos1, pos2) THEN pos2 ELSE pos1
            IN
            IF IsSome(start_pos) /\ IsSome(end_pos)
            THEN [same EXCEPT !.snapshot.live =
                     reverse_range(live, Unwrap(start_pos), Unwrap(end_pos))]
            ELSE same
      [] op.kind = "FinishLiveTask" ->
            LET pos_in_live == position(live, op.id) IN
            [snapshot |->
                IF IsSome(pos_in_live)
                THEN StateSnapshot(
                        remove(live, Unwrap(pos_in_live)),
                        push_front(finished,
                            FinishedTask(op.id, live[Unwrap(pos_in_live) + 1].value, op.status)))
                ELSE snapshot,
             active_id_val |-> clear_if_active(active_id_val, op.id)]

----------------------------------------------------------------------------
(* Input domains *)

Emails == {"", "u@x"}
Passwords == {"", "pw"}
ApiKeys == {"K1", "K2"}
TaskIds == {"t1", "t2"}
TaskValues == {"a", "b"}
PingData == {"p1"}
Times == {1}

server_api_url == "http://localhost:8080/public/"
other_api_url == "http://elsewhere/public/"

TodosCache(url, api_key) == [server_api_url |-> url, api_key |-> api_key]

----------------------------------------------------------------------------
(* The session variants *)

\* Todos::new: the dock starts collapsed, without the focus or the keyboard
DockClosed == [expanded |-> FALSE, focused |-> FALSE, grabbed |-> FALSE]

\* the dock once the cursor is over it and it was expanded
DockOpen == [expanded |-> TRUE, focused |-> TRUE, grabbed |-> TRUE]

from_cache(api_key) == [tag |-> "Restored", api_key |-> api_key]

not_connected(api_key, error) == [tag |-> "NotConnected", api_key |-> api_key, error |-> error]

not_logged_in ==
    [tag |-> "NotLoggedIn", email |-> "", password |-> "", view_password |-> FALSE, error |-> None]

ConnectedState(api_key, sink, stream) ==
    [tag |-> "Connected", api_key |-> api_key, websocket_recv |-> stream,
     websocket_send |-> sink, input_value |-> "", active_id_val |-> None,
     snapshot |-> StateSnapshot(<<>>, <<>>), show_finished |-> FALSE]

\* the process after a panic (an unwrap of None or of Err): update runs no more
Panicked == [tag |-> "Panicked"]

----------------------------------------------------------------------------
(* The wire: tungstenite messages, their JSON text, the items of the stream *)

WebsocketOp(alleged_time, kind) == [alleged_time |-> alleged_time, kind |-> kind]

\* serde_json::to_string(&wsop): the text of a well-formed operation
to_string(wsop) == <<"{", "alleged_time", wsop.alleged_time, "kind", wsop.kind, "}">>

\* texts that are no WebsocketOp: not JSON at all, and JSON without its kind
MalformedTexts == {<<"garbage">>, <<"{", "alleged_time", 1, "}">>}

\* serde_json::from_str::<WebsocketOp>(&msg)
from_str(text) ==
    IF Len(text) = 6 /\ text[1] = "{" /\ text[2] = "alleged_time" /\ text[4] = "kind" /\ text[6] = "}"
    THEN [ok |-> TRUE, v |-> WebsocketOp(text[3], text[5])]
    ELSE IF text[1] = "{"
    THEN [ok |-> FALSE, e |-> "missing field kind at line 1 column 18"]
    ELSE [ok |-> FALSE, e |-> "expected value at line 1 column 1"]

Text(text) == [frame |-> "Text", text |-> text]
Binary == [frame |-> "Binary"]
Ping(data) == [frame |-> "Ping", data |-> data]
Pong(data) == [frame |-> "Pong", data |-> data]
Close(f) == [frame |-> "Close", f |-> f]
CloseFrame(reason) == [reason |-> reason]

\* Option<Result<Message, String>>: what one poll of the stream yields
StreamEnd == [item |-> "None"]
StreamErr(e) == [item |-> "Err", e |-> e]
StreamOk(msg) == [item |-> "Ok", msg |-> msg]

Op_Pop(id, status) == [op |-> "Pop", id |-> id, status |-> status]
Op_Edit(id, value) == [op |-> "Edit", id |-> id, value |-> value]
Op_NewLive(value) == [op |-> "NewLive", value |-> value]
Op_RestoreFinished(id) == [op |-> "RestoreFinished", id |-> id]
Op_Move(id_del, id_ins) == [op |-> "Move", id_del |-> id_del, id_ins |-> id_ins]
Op_Rev(id1, id2) == [op |-> "Rev", id1 |-> id1, id2 |-> id2]

----------------------------------------------------------------------------
(* Futures given to the runtime, and the commands made of them *)

\* the login call; the credentials it carries go to the auth service, whose
\* answer is drawn from LoginResults whatever they are
LoginFuture(email, password) == [fut |-> "do_login"]
ConnectFuture(api_key) == [fut |-> "connect_async", api_key |-> api_key]
RecvFuture(ws) == [fut |-> "recv", ws |-> ws]
SendFuture(ws, msg) == [fut |-> "send", ws |-> ws, msg |-> msg]

\* Action::Future(async { message }): a future that posts the message
MessageFuture(message) == [fut |-> "message", message |-> message]

Command_none == EmptyBag
Command_single(f) == SetToBag({f})
Command_batch(c1, c2) == c1 (+) c2

\* a session that starts no connect attempt
attempt_connect_none(api_key) == Command_none

attempt_connect(api_key) == Command_single(ConnectFuture(api_key))

send(sink, msg) == Command_single(SendFuture(sink, msg))

\* a session that arms no receive
recv_none(stream) == Command_none

recv(stream) == Command_single(RecvFuture(stream))

\* ConnectedState::wsop: the operation as sent; now is the clock reading and
\* fresh the random string drawn for a new task
wsop(st, op, now, fresh) ==
    LET kind ==
            CASE op.op = "NewLive" -> InsLiveTask(op.value, fresh)
              [] op.op = "RestoreFinished" -> RestoreFinishedTask(op.id)
              [] op.op = "Pop" -> FinishLiveTask(op.id, op.status)
              [] op.op = "Edit" -> EditLiveTask(op.id, op.value)
              [] op.op = "Move" -> MvLiveTask(op.id_del, op.id_ins)
              [] op.op = "Rev" -> RevLiveTask(op.id1, op.id2)
    IN send(st.websocket_send, Text(to_string(WebsocketOp(now, kind))))

----------------------------------------------------------------------------
(* Messages of the event loop *)

LoginAttemptComplete(res) == [type |-> "LoginAttemptComplete", res |-> res]
ConnectAttemptComplete(res) == [type |-> "ConnectAttemptComplete", res |-> res]
WebsocketSendComplete(res) == [type |-> "WebsocketSendComplete", res |-> res]
WebsocketRecvComplete(result) == [type |-> "WebsocketRecvComplete", result |-> result]
CollapseDock == [type |-> "CollapseDock"]
FocusDock == [type |-> "FocusDock"]
UnfocusDock == [type |-> "UnfocusDock"]
ExpandDock == [type |-> "ExpandDock"]
EventOccurred(event) == [type |-> "EventOccurred", event |-> event]
ToggleFinished == [type |-> "ToggleFinished"]
EditInput(val) == [type |-> "EditInput", val |-> val]
SubmitInput == [type |-> "SubmitInput"]

Ok(v) == [ok |-> TRUE, v |-> v]
Err(e) == [ok |-> FALSE, e |-> e]

\* the unit value () of Result<(), String>
Unit == [unit |-> TRUE]

\* a websocket connection, known by its number and by the api key in the query
\* of the url it was opened with
Websocket(n, api_key) == [n |-> n, api_key |-> api_key]

\* the two halves of one websocket, as connect_async and split return them
Halves(ws) == [sink |-> ws, stream |-> ws]

\* ApiKey { key: Option<String>, .. }
ApiKey(key) == [key |-> key]

----------------------------------------------------------------------------
(* ConnectedState::handle_recv *)

Nop == [k |-> "Nop"]
RecvOp(wsop_v) == [k |-> "Op", op |-> wsop_v]
RecvPing(data) == [k |-> "Ping", data |-> data]
Unauthorized == [k |-> "Unauthorized"]
Other(e) == [k |-> "Other", e |-> e]

\* a Close frame that never tells Unauthorized from the other reasons
close_kind_all_other(f) ==
    IF IsSome(f) THEN Other(Unwrap(f).reason) ELSE Other("connection closed unexpectedly")

\* the arm of a Close frame
close_kind(f) ==
    IF IsSome(f)
    THEN IF Unwrap(f).reason = "Unauthorized"
         THEN Unauthorized
         ELSE Other(Unwrap(f).reason)
    ELSE Other("connection closed unexpectedly")

\* a Text frame whose decode failure is dropped
text_kind_drop(text) ==
    LET d == from_str(text) IN
    IF d.ok THEN Ok(RecvOp(d.v)) ELSE Ok(Nop)

\* the arm of a Text frame
text_kind(text) ==
    LET d == from_str(text) IN
    IF d.ok THEN Ok(RecvOp(d.v)) ELSE Err(Other(d.e))

handle_recv(result) ==
    CASE result.item = "Ok" ->
            LET msg == result.msg IN
            CASE msg.frame = "Text" -> text_kind(msg.text)
              [] msg.frame = "Ping" -> Ok(RecvPing(msg.data))
              [] msg.frame = "Close" -> Err(close_kind(msg.f))
              [] OTHER -> Ok(Nop)
      [] result.item = "Err" -> Err(Other(result.e))
      [] result.item = "None" -> Err(Other("Lost connection"))

----------------------------------------------------------------------------
(* Todos::update, one operator per message.  Each yields the session after *)
(* the message, the cache file after it, and the command update returns.   *)

Ret(st, cch, cmd) == [state |-> st, cache |-> cch, cmd |-> cmd]

Ignore == Ret(state, cache, Command_none)

\* xdg_manager::delete_cache: remove_file fails when there is no file
delete_cache == IF IsSome(cache) THEN Ok(None) ELSE Err("xdg: No such file or directory")

\* xdg_manager::write_cache
write_cache(value) == Some(value)

update_EditEmail(val) ==
    IF state.tag = "NotLoggedIn"
    THEN Ret([state EXCEPT !.email = val, !.error = None], cache, Command_none)
    ELSE Ignore

update_EditPassword(val) ==
    IF state.tag = "NotLoggedIn"
    THEN Ret([state EXCEPT !.password = val, !.error = None], cache, Command_none)
    ELSE Ignore

update_TogglePasswordView ==
    IF state.tag = "NotLoggedIn"
    THEN Ret([state EXCEPT !.view_password = ~state.view_password], cache, Command_none)
    ELSE Ignore

update_AttemptLogin ==
    IF state.tag = "NotLoggedIn"
    THEN Ret(state, cache, Command_single(LoginFuture(state.email, state.password)))
    ELSE Ignore

\* a failed login that blanks the form instead of reporting the error
update_LoginAttemptComplete_blank(res) ==
    IF state.tag = "NotLoggedIn"
    THEN IF res.ok /\ IsSome(res.v.key)
         THEN LET api_key == Unwrap(res.v.key) IN
              Ret(not_connected(api_key, None),
                  IF ~nocache THEN write_cache(TodosCache(server_api_url, api_key)) ELSE cache,
                  attempt_connect(api_key))
         ELSE Ret(not_logged_in, cache, Command_none)
    ELSE Ignore

update_LoginAttemptComplete(res) ==
    IF state.tag = "NotLoggedIn"
    THEN IF res.ok /\ IsSome(res.v.key)
         THEN LET api_key == Unwrap(res.v.key) IN
              Ret(not_connected(api_key, None),
                  IF ~nocache THEN write_cache(TodosCache(server_api_url, api_key)) ELSE cache,
                  attempt_connect(api_key))
         ELSE IF res.ok
         THEN Ret([state EXCEPT !.error = Some("No ApiKey returned")], cache, Command_none)
         ELSE Ret([state EXCEPT !.error = Some(res.e)], cache, Command_none)
    ELSE Ignore

update_RetryConnect ==
    CASE state.tag = "Restored" ->
            Ret(not_connected(state.api_key, None), cache, attempt_connect(state.api_key))
      [] state.tag = "NotConnected" ->
            Ret([state EXCEPT !.error = None], cache, attempt_connect(state.api_key))
      [] OTHER -> Ignore

update_ConnectAttemptComplete(result) ==
    IF state.tag = "NotConnected"
    THEN IF result.ok
         THEN Ret(ConnectedState(state.api_key, result.v.sink, result.v.stream), cache,
                  recv(result.v.stream))
         ELSE Ret([state EXCEPT !.error = Some(result.e)], cache, Command_none)
    ELSE Ignore

\* a LogOut that leaves the cache file where it is
update_LogOut_keep ==
    IF state.tag \in {"Connected", "NotConnected"}
    THEN Ret(not_logged_in, cache, Command_none)
    ELSE Ignore

update_LogOut ==
    IF state.tag \in {"Connected", "NotConnected"}
    THEN IF ~nocache
         THEN IF delete_cache.ok
              THEN Ret(not_logged_in, delete_cache.v, Command_none)
              ELSE Ret(Panicked, cache, Command_none)
         ELSE Ret(not_logged_in, cache, Command_none)
    ELSE Ignore

\* a session that takes no notice of a failed send
update_WebsocketSendComplete_keep(result) == Ignore

update_WebsocketSendComplete(result) ==
    IF state.tag = "Connected"
    THEN IF result.ok
         THEN Ignore
         ELSE Ret(not_connected(state.api_key, Some(result.e)), cache, Command_none)
    ELSE Ignore

\* a reply that loses the payload of the Ping
pong_reply_empty(st, data) == send(st.websocket_send, Pong(""))

\* the reply to a Ping
pong_reply(st, data) == send(st.websocket_send, Pong(data))

\* a receive handler that unwraps what handle_recv returns
update_WebsocketRecvComplete_unwrap(result) ==
    IF state.tag = "Connected"
    THEN LET h == handle_recv(result) IN
         IF h.ok
         THEN CASE h.v.k = "Nop" -> Ret(state, cache, recv(state.websocket_recv))
                [] h.v.k = "Ping" ->
                     Ret(state, cache,
                         Command_batch(recv(state.websocket_recv), pong_reply(state, h.v.data)))
                [] h.v.k = "Op" ->
                     LET a == apply_operation(state.snapshot, state.active_id_val, h.v.op.kind) IN
                     Ret([state EXCEPT !.snapshot = a.snapshot, !.active_id_val = a.active_id_val],
                         cache, recv(state.websocket_recv))
         ELSE Ret(Panicked, cache, Command_none)
    ELSE Ignore

\* a receive handler that keeps the active edit whatever the operation
update_WebsocketRecvComplete_keep(result) ==
    IF state.tag = "Connected"
    THEN LET h == handle_recv(result) IN
         IF h.ok
         THEN CASE h.v.k = "Nop" -> Ret(state, cache, recv(state.websocket_recv))
                [] h.v.k = "Ping" ->
                     Ret(state, cache,
                         Command_batch(recv(state.websocket_recv), pong_reply(state, h.v.data)))
                [] h.v.k = "Op" ->
                     LET a == apply_operation(state.snapshot, state.active_id_val, h.v.op.kind) IN
                     Ret([state EXCEPT !.snapshot = a.snapshot], cache, recv(state.websocket_recv))
         ELSE IF h.e.k = "Unauthorized"
         THEN Ret(not_logged_in, cache, Command_none)
         ELSE Ret(not_connected(state.api_key, Some(h.e.e)), cache, Command_none)
    ELSE Ignore

\* a receive handler that arms no receive after a frame that is no data
update_WebsocketRecvComplete_deaf(result) ==
    IF state.tag = "Connected"
    THEN LET h == handle_recv(result) IN
         IF h.ok
         THEN CASE h.v.k = "Nop" -> Ret(state, cache, Command_none)
                [] h.v.k = "Ping" ->
                     Ret(state, cache,
                         Command_batch(recv(state.websocket_recv), pong_reply(state, h.v.data)))
                [] h.v.k = "Op" ->
                     LET a == apply_operation(state.snapshot, state.active_id_val, h.v.op.kind) IN
                     Ret([state EXCEPT !.snapshot = a.snapshot, !.active_id_val = a.active_id_val],
                         cache, recv(state.websocket_recv))
         ELSE IF h.e.k = "Unauthorized"
         THEN Ret(not_logged_in, cache, Command_none)
         ELSE Ret(not_connected(state.api_key, Some(h.e.e)), cache, Command_none)
    ELSE Ignore

update_WebsocketRecvComplete(result) ==
    IF state.tag = "Connected"
    THEN LET h == handle_recv(result) IN
         IF h.ok
         THEN CASE h.v.k = "Nop" -> Ret(state, cache, recv(state.websocket_recv))
                [] h.v.k = "Ping" ->
                     Ret(state, cache,
                         Command_batch(recv(state.websocket_recv), pong_reply(state, h.v.data)))
                [] h.v.k = "Op" ->
                     LET a == apply_operation(state.snapshot, state.active_id_val, h.v.op.kind) IN
                     Ret([state EXCEPT !.snapshot = a.snapshot, !.active_id_val = a.active_id_val],
                         cache, recv(state.websocket_recv))
         ELSE IF h.e.k = "Unauthorized"
         THEN Ret(not_logged_in, cache, Command_none)
         ELSE Ret(not_connected(state.api_key, Some(h.e.e)), cache, Command_none)
    ELSE Ignore

\* an Op that is applied to the snapshot as it is sent
update_Op_local(op, now, fresh) ==
    IF state.tag = "Connected"
    THEN Ret([state EXCEPT !.snapshot =
                 IF op.op = "Pop"
                 THEN apply_operation(state.snapshot, state.active_id_val,
                                      FinishLiveTask(op.id, op.status)).snapshot
                 ELSE @],
             cache, wsop(state, op, now, fresh))
    ELSE Ignore

update_Op(op, now, fresh) ==
    IF state.tag = "Connected"
    THEN Ret(state, cache, wsop(state, op, now, fresh))
    ELSE Ignore

\* an EditActive that also writes the input line of the new task
update_EditActive_input(new_value) ==
    IF state.tag = "Connected"
    THEN Ret([state EXCEPT !.input_value = new_value,
                           !.active_id_val = IF IsSome(@) THEN Some(<<Unwrap(@)[1], new_value>>) ELSE @],
             cache, Command_none)
    ELSE Ignore

update_EditActive(new_value) ==
    IF state.tag = "Connected" /\ IsSome(state.active_id_val)
    THEN Ret([state EXCEPT !.active_id_val = Some(<<Unwrap(state.active_id_val)[1], new_value>>)],
             cache, Command_none)
    ELSE Ignore

\* a SetActive that moves the slot and commits nothing
update_SetActive_nocommit(a, now, fresh) ==
    IF state.tag = "Connected"
    THEN LET found == IF IsSome(a) THEN position(state.snapshot.live, Unwrap(a)) ELSE None IN
         IF IsSome(a)
         THEN IF IsSome(found)
              THEN Ret([state EXCEPT !.active_id_val =
                           Some(<<Unwrap(a), state.snapshot.live[Unwrap(found) + 1].value>>)],
                       cache, Command_none)
              ELSE Ret(Panicked, cache, Command_none)
         ELSE Ret([state EXCEPT !.active_id_val = None], cache, Command_none)
    ELSE Ignore

update_SetActive(a, now, fresh) ==
    IF state.tag = "Connected"
    THEN LET edit_command ==
                 IF IsSome(state.active_id_val)
                 THEN wsop(state, Op_Edit(Unwrap(state.active_id_val)[1],
                                          Unwrap(state.active_id_val)[2]), now, fresh)
                 ELSE Command_none
             found == IF IsSome(a) THEN position(state.snapshot.live, Unwrap(a)) ELSE None
         IN
         IF IsSome(a)
         THEN IF IsSome(found)
              THEN Ret([state EXCEPT !.active_id_val =
                           Some(<<Unwrap(a), state.snapshot.live[Unwrap(found) + 1].value>>)],
                       cache, edit_command)
              ELSE Ret(Panicked, cache, Command_none)
         ELSE Ret([state EXCEPT !.active_id_val = None], cache, edit_command)
    ELSE Ignore

----------------------------------------------------------------------------
(* The command line.  A line is a string; the model writes it as the words *)
(* and single spaces it is made of, and reads it back from the string.     *)

RECURSIVE Join(_)
Join(tokens) == IF tokens = <<>> THEN "" ELSE Head(tokens) \o Join(Tail(tokens))

\* the words that are a usize, in order of their value from zero
NumWords == <<"0", "1", "2", "3">>

\* one verb, or a verb and one or two words after it
Line0(verb) == <<verb>>
Line1(verb, w) == <<verb, " ", w>>
Line2(verb, w1, w2) == <<verb, " ", w1, " ", w2>>

Verbs == {"x", "c", "t", "s", "f", "o", "r", "q", "mv", "rev"}

\* the lines the user submits: every verb alone, the index verbs with every
\* index, lines that only start like a command, and free text
InputLines ==
    {<<>>, Line0("z"), Line1("rando", "text"), Line1("s", "foo"), Line1("r", "x"),
     Line1("mv", "-1"), <<"mv", " ", " ", "1">>, Line2("x", "y", "z")}
    \cup {Line0(verb) : verb \in Verbs}
    \cup {Line1(verb, NumWords[i]) : verb \in {"r", "q", "mv", "rev"}, i \in 1..Len(NumWords)}
    \cup {Line2(verb, NumWords[i], NumWords[j]) : verb \in {"mv", "rev"}, i, j \in 1..3}

\* the words and spaces of a line
tokens_of(val) == CHOOSE tokens \in InputLines : Join(tokens) = val

\* val.split_once(" ").map(|x| x.0).unwrap_or(val)
first_word(val) ==
    LET tokens == tokens_of(val) IN
    IF tokens = <<>> \/ tokens[1] = " " THEN "" ELSE tokens[1]

\* str::parse::<usize>
parse_usize(word) ==
    IF \E i \in 1..Len(NumWords) : NumWords[i] = word
    THEN Some((CHOOSE i \in 1..Len(NumWords) : NumWords[i] = word) - 1)
    ELSE None

\* sscanf::scanf!(val, "verb {}", usize): the whole line has to match
scanf1(val, verb) ==
    LET tokens == tokens_of(val) IN
    IF Len(tokens) = 3 /\ tokens[1] = verb /\ tokens[2] = " "
    THEN parse_usize(tokens[3])
    ELSE None

\* sscanf::scanf!(val, "verb {} {}", usize, usize)
scanf2(val, verb) ==
    LET tokens == tokens_of(val) IN
    IF /\ Len(tokens) = 5 /\ tokens[1] = verb /\ tokens[2] = " " /\ tokens[4] = " "
       /\ IsSome(parse_usize(tokens[3])) /\ IsSome(parse_usize(tokens[5]))
    THEN Some(<<Unwrap(parse_usize(tokens[3])), Unwrap(parse_usize(tokens[5]))>>)
    ELSE None

\* the command of a pair of tasks looked up in live: sent when both are there
\* and the condition of the verb holds
pair_command(st, f, b, cond, verb, now, fresh) ==
    IF IsSome(f) /\ IsSome(b) /\ cond
    THEN wsop(st, IF verb = "rev"
                  THEN Op_Rev(Unwrap(f).id, Unwrap(b).id)
                  ELSE Op_Move(Unwrap(f).id, Unwrap(b).id), now, fresh)
    ELSE Command_none

\* the command SubmitInput returns for the line val; st is the session with
\* the line already taken
submit_command(st, val, now, fresh) ==
    LET word == first_word(val)
        l == st.snapshot.live
        f == st.snapshot.finished
        one(verb) == scanf1(val, verb)
        two(verb) == scanf2(val, verb)
        pop(status) ==
            IF IsSome(front(l))
            THEN wsop(st, Op_Pop(Unwrap(front(l)).id, status), now, fresh)
            ELSE Command_none
        indexed(verb) ==
            IF IsSome(two(verb))
            THEN pair_command(st, get(l, Unwrap(two(verb))[1]), get(l, Unwrap(two(verb))[2]),
                              Unwrap(two(verb))[1] /= Unwrap(two(verb))[2], verb, now, fresh)
            ELSE IF IsSome(one(verb))
            THEN pair_command(st, get(l, Unwrap(one(verb))), front(l), Len(l) > 1, verb, now, fresh)
            ELSE Command_none
    IN
    CASE word = "c" -> Command_single(MessageFuture(CollapseDock))
      [] word = "t" -> Command_single(MessageFuture(ToggleFinished))
      [] word = "s" -> pop("Succeeded")
      [] word = "f" -> pop("Failed")
      [] word = "o" -> pop("Obsoleted")
      [] word = "r" ->
            IF IsSome(one("r"))
            THEN IF Unwrap(one("r")) < Len(f)
                 THEN wsop(st, Op_RestoreFinished(f[Unwrap(one("r")) + 1].id), now, fresh)
                 ELSE Command_none
            ELSE IF val = "r"
            THEN IF 0 < Len(f)
                 THEN wsop(st, Op_RestoreFinished(f[1].id), now, fresh)
                 ELSE Command_none
            ELSE Command_none
      [] word = "q" ->
            IF IsSome(one("q"))
            THEN pair_command(st, get(l, Unwrap(one("q"))), back(l), Len(l) > 1, "q", now, fresh)
            ELSE IF val = "q"
            THEN pair_command(st, front(l), back(l), Len(l) > 1, "q", now, fresh)
            ELSE Command_none
      [] word = "mv" -> indexed("mv")
      [] word = "rev" -> indexed("rev")
      [] OTHER -> wsop(st, Op_NewLive(val), now, fresh)

\* std::mem::take(&mut state.input_value)
take(st) == [st EXCEPT !.input_value = ""]

update_SubmitInput(now, fresh) ==
    IF state.tag = "Connected"
    THEN IF first_word(state.input_value) = "x"
         THEN Ret(Panicked, cache, Command_none)
         ELSE Ret(take(state), cache, submit_command(take(state), state.input_value, now, fresh))
    ELSE Ignore

update_EditInput(value) ==
    IF state.tag = "Connected"
    THEN Ret([state EXCEPT !.input_value = value], cache, Command_none)
    ELSE Ignore

\* the handlers of the messages of the window leave the session as it is;
\* what they do to the dock is update_dock, the resize and the focus of a
\* widget are commands that post no message
update_FocusDock == Ignore

update_UnfocusDock == Ignore

update_ExpandDock == Ignore

\* Message::EventOccurred: the cursor entering, leaving or moving posts the
\* message for the dock; any other event posts nothing
update_EventOccurred(event) ==
    CASE event = "CursorEntered" -> Ret(state, cache, Command_single(MessageFuture(FocusDock)))
      [] event = "CursorLeft" -> Ret(state, cache, Command_single(MessageFuture(UnfocusDock)))
      [] event = "CursorMoved" -> Ret(state, cache, Command_single(MessageFuture(FocusDock)))
      [] OTHER -> Ignore

\* the handler calls wm_hints::grab_keyboard or wm_hints::ungrab_keyboard
wm_call(message, d) ==
    CASE message.type = "FocusDock" -> d.expanded /\ ~d.grabbed
      [] message.type = "UnfocusDock" -> d.grabbed
      [] message.type = "ExpandDock" -> d.focused
      [] message.type = "CollapseDock" -> d.grabbed
      [] OTHER -> FALSE

\* what the call can return: TRUE for Ok; a handler that makes no call has
\* nothing that fails
WmResults(message, d) == IF wm_call(message, d) THEN BOOLEAN ELSE {TRUE}

\* a dock that takes every call to have succeeded
update_dock_sure(message, d, ok) ==
    CASE message.type = "FocusDock" ->
            [d EXCEPT !.focused = TRUE, !.grabbed = IF d.expanded /\ ~d.grabbed THEN TRUE ELSE @]
      [] message.type = "UnfocusDock" ->
            [d EXCEPT !.focused = FALSE, !.grabbed = FALSE]
      [] message.type = "ExpandDock" ->
            [d EXCEPT !.expanded = TRUE, !.grabbed = IF d.focused THEN TRUE ELSE @]
      [] message.type = "CollapseDock" ->
            [d EXCEPT !.expanded = FALSE, !.grabbed = FALSE]
      [] OTHER -> d

\* the flags of the dock after update has handled the message; ok is what the
\* call to the window manager returned
update_dock(message, d, ok) ==
    CASE message.type = "FocusDock" ->
            [d EXCEPT !.focused = TRUE,
                      !.grabbed = IF d.expanded /\ ~d.grabbed /\ ok THEN TRUE ELSE @]
      [] message.type = "UnfocusDock" ->
            [d EXCEPT !.focused = FALSE,
                      !.grabbed = IF d.grabbed /\ ok THEN FALSE ELSE @]
      [] message.type = "ExpandDock" ->
            [d EXCEPT !.expanded = TRUE,
                      !.grabbed = IF d.focused /\ ok THEN TRUE ELSE @]
      [] message.type = "CollapseDock" ->
            [d EXCEPT !.expanded = FALSE,
                      !.grabbed = IF d.grabbed /\ ok THEN FALSE ELSE @]
      [] OTHER -> d

\* the window is resized and the keyboard released: the session keeps neither
update_CollapseDock ==
    IF state.tag = "Connected"
    THEN Ret([state EXCEPT !.input_value = "", !.active_id_val = None], cache, Command_none)
    ELSE Ignore

update_ToggleFinished ==
    IF state.tag = "Connected"
    THEN Ret([state EXCEPT !.show_finished = ~@], cache, Command_none)
    ELSE Ignore

update(message, now, fresh) ==
    CASE message.type = "EditEmail" -> update_EditEmail(message.val)
      [] message.type = "EditPassword" -> update_EditPassword(message.val)
      [] message.type = "TogglePasswordView" -> update_TogglePasswordView
      [] message.type = "AttemptLogin" -> update_AttemptLogin
      [] message.type = "LoginAttemptComplete" -> update_LoginAttemptComplete(message.res)
      [] message.type = "RetryConnect" -> update_RetryConnect
      [] message.type = "ConnectAttemptComplete" -> update_ConnectAttemptComplete(message.res)
      [] message.type = "LogOut" -> update_LogOut
      [] message.type = "WebsocketSendComplete" -> update_WebsocketSendComplete(message.res)
      [] message.type = "WebsocketRecvComplete" -> update_WebsocketRecvComplete(message.result)
      [] message.type = "Op" -> update_Op(message.op, now, fresh)
      [] message.type = "EditActive" -> update_EditActive(message.val)
      [] message.type = "SetActive" -> update_SetActive(message.a, now, fresh)
      [] message.type = "CollapseDock" -> update_CollapseDock
      [] message.type = "FocusDock" -> update_FocusDock
      [] message.type = "UnfocusDock" -> update_UnfocusDock
      [] message.type = "ExpandDock" -> update_ExpandDock
      [] message.type = "EventOccurred" -> update_EventOccurred(message.event)
      [] message.type = "EditInput" -> update_EditInput(message.val)
      [] message.type = "SubmitInput" -> update_SubmitInput(now, fresh)
      [] message.type = "ToggleFinished" -> update_ToggleFinished

----------------------------------------------------------------------------
(* What the environment can answer *)

LoginResults ==
    {Ok(ApiKey(Some(k))) : k \in ApiKeys} \cup {Ok(ApiKey(None)), Err("401: wrong password")}

ConnectError == "Connection refused"

SendResults == {Ok(Unit), Err("Connection closed normally")}

\* the operations the server sends in the session runs
WireKinds == {InsLiveTask("a", "t1"), DelLiveTask("t1")}

CloseFrames == {None, Some(CloseFrame("Unauthorized")), Some(CloseFrame(""))}

StreamItems ==
    {StreamEnd, StreamErr("Connection reset without closing handshake")}
    \cup {StreamOk(Text(to_string(WebsocketOp(t, k)))) : t \in Times, k \in WireKinds}
    \cup {StreamOk(Text(t)) : t \in MalformedTexts}
    \cup {StreamOk(Binary)}
    \cup {StreamOk(Ping(d)) : d \in PingData}
    \cup {StreamOk(Close(f)) : f \in CloseFrames}

----------------------------------------------------------------------------
(* The initial state: Todos::new *)

new(nc, cch) ==
    IF nc
    THEN not_logged_in
    ELSE IF IsSome(cch) /\ Unwrap(cch).server_api_url = server_api_url
         THEN from_cache(Unwrap(cch).api_key)
         ELSE not_logged_in

\* the cache files a start can find; with nocache the file is never looked at
CacheFiles ==
    {None, Some(TodosCache(server_api_url, "K1")), Some(TodosCache(other_api_url, "K1"))}

Init ==
    /\ nocache \in BOOLEAN
    /\ cache \in IF nocache THEN {None} ELSE CacheFiles
    /\ state = new(nocache, cache)
    /\ dock = DockClosed
    /\ futures = EmptyBag
    /\ handled = [type |-> "None", tag |-> "None"]

----------------------------------------------------------------------------
(* The event loop: update handles one message.  futs are the futures left  *)
(* once the future that posted the message is gone.                        *)

\* the bounds of the model: the futures in flight, the live tasks
WithinBounds(st, futs) ==
    /\ BagCardinality(futs) <= MaxInFlight
    /\ st.tag = "Connected" => Len(st.snapshot.live) <= MaxLive

\* update handles m: the new state, the cache file, the futures it spawns
Handle(m, now, fresh, futs) ==
    LET r == update(m, now, fresh) IN
    /\ state.tag /= "Panicked"
    /\ state' = r.state
    /\ cache' = r.cache
    /\ futures' = futs (+) r.cmd
    /\ \E ok \in WmResults(m, dock) : dock' = update_dock(m, dock, ok)
    /\ UNCHANGED nocache

Step(m, now, fresh, futs) ==
    LET r == update(m, now, fresh) IN
    /\ state.tag /= "Panicked"
    /\ WithinBounds(r.state, futs (+) r.cmd)
    /\ state' = r.state
    /\ cache' = r.cache
    /\ futures' = futs (+) r.cmd
    /\ \E ok \in WmResults(m, dock) : dock' = update_dock(m, dock, ok)
    /\ handled' = [type |-> m.type, tag |-> state.tag]
    /\ UNCHANGED nocache

Without(bag, x) == bag (-) SetToBag({x})

----------------------------------------------------------------------------
(* The runtime.  A future completes and the message it posts is handled in *)
(* one step: nothing reads the result in between.  The futures complete in *)
(* any order.                                                              *)

\* do_login answers res
LoginCompletes(f, res) ==
    /\ f \in BagToSet(futures)
    /\ f.fut = "do_login"
    /\ Step(LoginAttemptComplete(res), 1, "t1", Without(futures, f))

\* the websockets that the session, a future or a posted result still holds
OpenSockets ==
    (IF state.tag = "Connected" THEN {state.websocket_recv, state.websocket_send} ELSE {})
    \cup {f.ws : f \in {g \in BagToSet(futures) : g.fut \in {"recv", "send"}}}

\* a websocket that is none of those; a number is free again once nothing
\* holds the websocket that had it
new_websocket(api_key) ==
    LET used == {ws.n : ws \in OpenSockets}
        n == CHOOSE k \in 1..(MaxInFlight + 2) : k \notin used /\ \A j \in 1..(k - 1) : j \in used
    IN Websocket(n, api_key)

\* connect_async establishes a new websocket with the api key of the attempt
ConnectSucceeds(f) ==
    /\ f \in BagToSet(futures)
    /\ f.fut = "connect_async"
    /\ Step(ConnectAttemptComplete(Ok(Halves(new_websocket(f.api_key)))), 1, "t1",
            Without(futures, f))

ConnectFails(f) ==
    /\ f \in BagToSet(futures)
    /\ f.fut = "connect_async"
    /\ Step(ConnectAttemptComplete(Err(ConnectError)), 1, "t1", Without(futures, f))

\* Todos::send has written (or failed to write) its message
SendCompletes(f, res) ==
    /\ f \in BagToSet(futures)
    /\ f.fut = "send"
    /\ Step(WebsocketSendComplete(res), 1, "t1", Without(futures, f))

\* Todos::recv has taken the next item of its stream; the item is whatever
\* the server sent, or the end of the stream, or an error
RecvCompletes(f, item) ==
    /\ f \in BagToSet(futures)
    /\ f.fut = "recv"
    /\ Step(WebsocketRecvComplete(item), 1, "t1", Without(futures, f))

OnLoginAttemptComplete == \E f \in BagToSet(futures), res \in LoginResults : LoginCompletes(f, res)

OnConnectAttemptCompleteOk == \E f \in BagToSet(futures) : ConnectSucceeds(f)

OnConnectAttemptCompleteErr == \E f \in BagToSet(futures) : ConnectFails(f)

OnWebsocketSendComplete == \E f \in BagToSet(futures), res \in SendResults : SendCompletes(f, res)

OnWebsocketRecvComplete == \E f \in BagToSet(futures), item \in StreamItems : RecvCompletes(f, item)

----------------------------------------------------------------------------
(* The user: the messages the widgets of view produce in each variant *)

EditEmail(val) == [type |-> "EditEmail", val |-> val]
EditPassword(val) == [type |-> "EditPassword", val |-> val]
TogglePasswordView == [type |-> "TogglePasswordView"]
AttemptLogin == [type |-> "AttemptLogin"]
RetryConnect == [type |-> "RetryConnect"]
LogOut == [type |-> "LogOut"]
MessageOp(op) == [type |-> "Op", op |-> op]
EditActive(val) == [type |-> "EditActive", val |-> val]
SetActive(a) == [type |-> "SetActive", a |-> a]

\* a message of the user interface reaches update; fresh is the random string
\* a new task would get
PressNew(m, fresh) ==
    /\ \E now \in Times : Step(m, now, fresh, futures)

\* a message that creates no task
Press(m) == PressNew(m, "t1")

LiveIds == IF state.tag = "Connected"
           THEN {state.snapshot.live[i].id : i \in 1..Len(state.snapshot.live)}
           ELSE {}

\* what the user types and presses in the session runs
TypedEmails == {"u@x"}
TypedPasswords == {"pw"}
TypedValues == {"b"}
PressedStatus == {"Succeeded"}

UserEditEmail == state.tag = "NotLoggedIn" /\ \E v \in TypedEmails : Press(EditEmail(v))

UserEditPassword == state.tag = "NotLoggedIn" /\ \E v \in TypedPasswords : Press(EditPassword(v))

UserAttemptLogin == state.tag = "NotLoggedIn" /\ Press(AttemptLogin)

UserRetryConnect == state.tag \in {"Restored", "NotConnected"} /\ Press(RetryConnect)

UserLogOut == state.tag \in {"NotConnected", "Connected"} /\ Press(LogOut)

UserOp ==
    /\ state.tag = "Connected"
    /\ \E id \in LiveIds, status \in PressedStatus : Press(MessageOp(Op_Pop(id, status)))

UserSetActive ==
    /\ state.tag = "Connected"
    /\ \E a \in {None} \cup {Some(id) : id \in LiveIds} : Press(SetActive(a))

UserEditActive ==
    /\ state.tag = "Connected"
    /\ IsSome(state.active_id_val)
    /\ \E v \in TypedValues : Press(EditActive(v))

Next ==
    \/ OnLoginAttemptComplete
    \/ OnConnectAttemptCompleteOk
    \/ OnConnectAttemptCompleteErr
    \/ OnWebsocketSendComplete
    \/ OnWebsocketRecvComplete
    \/ UserEditEmail
    \/ UserEditPassword
    \/ UserAttemptLogin
    \/ UserRetryConnect
    \/ UserLogOut
    \/ UserOp
    \/ UserSetActive
    \/ UserEditActive

Spec == Init /\ [][Next]_vars

----------------------------------------------------------------------------
(* The session state machine: claims C1 to C10 *)

UnauthorizedClose == StreamOk(Close(Some(CloseFrame("Unauthorized"))))

IsClose(item) == item.item = "Ok" /\ item.msg.frame = "Close"

\* the receive results that are a transient failure: a Close frame with
\* another reason or with no close frame, a receive error, the end of the stream
TransientItems ==
    {item \in StreamItems : item.item \in {"None", "Err"} \/ (IsClose(item) /\ item /= UnauthorizedClose)}

FailedSends == {res \in SendResults : ~res.ok}

WellFormedTexts == {to_string(WebsocketOp(t, k)) : t \in Times, k \in WireKinds}

\* the fields of a session that holds no snapshot, no active edit, no transport
NotLoggedInFields == {"tag", "email", "password", "view_password", "error"}
NotConnectedFields == {"tag", "api_key", "error"}

LastHandled(type, tag) == handled = [type |-> type, tag |-> tag]

\* the step is update handling a message of this type in this variant
Handling(type, tag) == state.tag = tag /\ handled' = [type |-> type, tag |-> tag]

\* C1: a Connected session that handles a Close frame with the reason
\* "Unauthorized" becomes NotLoggedIn with blank email and password and no
\* error; it holds no snapshot and no active edit any more, and the step
\* starts no future: no receive is re-armed, no connect attempt is made.
C1_UnauthorizedLogsOut ==
    [][\A f \in BagToSet(futures) :
        (Handling("WebsocketRecvComplete", "Connected") /\ RecvCompletes(f, UnauthorizedClose))
        => /\ state'.tag = "NotLoggedIn"
           /\ DOMAIN state' = NotLoggedInFields
           /\ state'.email = "" /\ state'.password = "" /\ state'.error = None
           /\ futures' = Without(futures, f)]_vars

C1_Witness ==
    /\ LastHandled("WebsocketRecvComplete", "Connected")
    /\ state.tag = "NotLoggedIn"

\* C2: with caching enabled, once a Connected session has handled a Close
\* frame with the reason "Unauthorized" the cache file holds no api key.
C2_UnauthorizedClearsCache ==
    [][\A f \in BagToSet(futures) :
        (Handling("WebsocketRecvComplete", "Connected") /\ ~nocache /\ RecvCompletes(f, UnauthorizedClose))
        => cache' = None]_vars

\* what C3 says of every transient failure, but for the text of the error
C3_Lost(futs) ==
    /\ state'.tag = "NotConnected"
    /\ DOMAIN state' = NotConnectedFields
    /\ state'.api_key = state.api_key
    /\ futures' = futs

\* C3 as the claim has it: every transient failure handled while Connected
\* gives NotConnected with the api key kept and an error that is not empty, the
\* snapshot and the active edit gone, nothing sent again and nothing re-armed.
C3_TransientLossNonEmptyError ==
    [][/\ \A f \in BagToSet(futures), item \in TransientItems :
            (Handling("WebsocketRecvComplete", "Connected") /\ RecvCompletes(f, item))
            => C3_Lost(Without(futures, f)) /\ IsSome(state'.error) /\ Unwrap(state'.error) /= ""
       /\ \A f \in BagToSet(futures), res \in FailedSends :
            (Handling("WebsocketSendComplete", "Connected") /\ SendCompletes(f, res))
            => C3_Lost(Without(futures, f)) /\ IsSome(state'.error) /\ Unwrap(state'.error) /= ""]_vars

\* C3, amended: every transient failure handled while Connected gives
\* NotConnected with the api key kept and an error recorded, the snapshot and
\* the active edit gone, nothing sent again and nothing re-armed; the error of
\* a Close frame is the reason of the frame, empty when the reason is empty.
C3_TransientLoss ==
    [][/\ \A f \in BagToSet(futures), item \in TransientItems :
            (Handling("WebsocketRecvComplete", "Connected") /\ RecvCompletes(f, item))
            => /\ C3_Lost(Without(futures, f))
               /\ IsSome(state'.error)
               /\ (IsClose(item) /\ IsSome(item.msg.f))
                    => state'.error = Some(Unwrap(item.msg.f).reason)
               /\ ~(IsClose(item) /\ IsSome(item.msg.f)) => Unwrap(state'.error) /= ""
       /\ \A f \in BagToSet(futures), res \in FailedSends :
            (Handling("WebsocketSendComplete", "Connected") /\ SendCompletes(f, res))
            => C3_Lost(Without(futures, f)) /\ state'.error = Some(res.e) /\ res.e /= ""]_vars

\* a Close frame with an empty reason has ended a Connected session
C3_Witness ==
    /\ LastHandled("WebsocketRecvComplete", "Connected")
    /\ state.tag = "NotConnected"
    /\ state.error = Some("")

\* C4: a Text frame handled while Connected is never dropped: when it does not
\* decode the session becomes NotConnected with the api key kept and the decode
\* error recorded, and when it decodes the operation is applied and the session
\* stays Connected.
C4_TextFrames ==
    [][\A f \in BagToSet(futures) :
        /\ \A t \in MalformedTexts :
            (Handling("WebsocketRecvComplete", "Connected") /\ RecvCompletes(f, StreamOk(Text(t))))
            => /\ C3_Lost(Without(futures, f))
               /\ state'.error = Some(from_str(t).e)
        /\ \A t \in WellFormedTexts :
            (Handling("WebsocketRecvComplete", "Connected") /\ RecvCompletes(f, StreamOk(Text(t))))
            => LET a == apply_operation(state.snapshot, state.active_id_val, t[5]) IN
               /\ state'.tag = "Connected"
               /\ state'.snapshot = a.snapshot
               /\ state'.active_id_val = a.active_id_val]_vars

C4_Witness ==
    /\ LastHandled("WebsocketRecvComplete", "Connected")
    /\ state.tag = "NotConnected"
    /\ state.error \in {Some(from_str(t).e) : t \in MalformedTexts}

\* C5: a login that returns an api key, handled in NotLoggedIn, and RetryConnect
\* handled in Restored, each give NotConnected with that api key and no error
\* and start exactly one connect attempt with that api key.
C5_LoginAndResumeConnect ==
    [][/\ \A f \in BagToSet(futures), k \in ApiKeys :
            (state.tag = "NotLoggedIn" /\ LoginCompletes(f, Ok(ApiKey(Some(k)))))
            => /\ state' = [tag |-> "NotConnected", api_key |-> k, error |-> None]
               /\ futures' = Without(futures, f) (+) SetToBag({ConnectFuture(k)})
       /\ (state.tag = "Restored" /\ Press(RetryConnect))
            => /\ state' = [tag |-> "NotConnected", api_key |-> state.api_key, error |-> None]
               /\ futures' = futures (+) SetToBag({ConnectFuture(state.api_key)})]_vars

C5_Witness ==
    /\ LastHandled("LoginAttemptComplete", "NotLoggedIn")
    /\ state.tag = "NotConnected"
    /\ state.api_key = "K2"
    /\ ConnectFuture("K2") \in BagToSet(futures)

\* C6: a login that fails or returns no api key leaves the session NotLoggedIn
\* with the email and password as entered and an error recorded; it starts no
\* connect attempt and does not write the cache.
C6_FailedLogin ==
    [][\A f \in BagToSet(futures), res \in LoginResults :
        (state.tag = "NotLoggedIn" /\ LoginCompletes(f, res)
            /\ (~res.ok \/ res.v.key = None))
        => /\ state'.tag = "NotLoggedIn"
           /\ state'.email = state.email
           /\ state'.password = state.password
           /\ IsSome(state'.error)
           /\ futures' = Without(futures, f)
           /\ cache' = cache]_vars

C6_Witness ==
    /\ LastHandled("LoginAttemptComplete", "NotLoggedIn")
    /\ state.tag = "NotLoggedIn"
    /\ IsSome(state.error)
    /\ state.email /= "" /\ state.password /= ""

\* C7: a connect that succeeds, handled in NotConnected, gives a Connected
\* session with the same api key, an empty snapshot, no active edit and an
\* empty input, and arms exactly one receive, on the new transport.
C7_ConnectSucceeds ==
    [][\A f \in BagToSet(futures) :
        (state.tag = "NotConnected" /\ ConnectSucceeds(f))
        => /\ state'.tag = "Connected"
           /\ state'.api_key = state.api_key
           /\ state'.snapshot = [live |-> <<>>, finished |-> <<>>]
           /\ state'.active_id_val = None
           /\ state'.input_value = ""
           /\ \A ws \in OpenSockets : ws.n /= state'.websocket_recv.n
           /\ state'.websocket_send = state'.websocket_recv
           /\ futures' = Without(futures, f) (+) SetToBag({RecvFuture(state'.websocket_recv)})]_vars

C7_Witness ==
    /\ LastHandled("ConnectAttemptComplete", "NotConnected")
    /\ state.tag = "Connected"
    /\ RecvFuture(state.websocket_recv) \in BagToSet(futures)

ConnectsIn(bag) == BagCardinality([f \in {g \in BagToSet(bag) : g.fut = "connect_async"} |-> CopiesIn(f, bag)])

\* C8: there is no automatic retry.  A connect that fails leaves the session
\* NotConnected with the error recorded; a connect attempt is started only by
\* a login that returned an api key or by RetryConnect; and a session that is
\* NotConnected after a failure (its error is recorded) stays NotConnected
\* until RetryConnect or LogOut is handled.
C8_NoAutomaticRetry ==
    [][/\ \A f \in BagToSet(futures) :
            (state.tag = "NotConnected" /\ ConnectFails(f))
            => /\ state' = [tag |-> "NotConnected", api_key |-> state.api_key,
                            error |-> Some(ConnectError)]
               /\ futures' = Without(futures, f)
       /\ ConnectsIn(futures') > ConnectsIn(futures)
            => \/ Press(RetryConnect)
               \/ \E f \in BagToSet(futures), k \in ApiKeys : LoginCompletes(f, Ok(ApiKey(Some(k))))
       /\ (state.tag = "NotConnected" /\ IsSome(state.error) /\ state'.tag /= "NotConnected")
            => Press(LogOut)]_vars

\* C9: a Ping with payload d handled while Connected enqueues exactly one Pong
\* with payload d on the sink of the session and re-arms the receive; the
\* session, its snapshot and its active edit stay as they are.
C9_PingPong ==
    [][\A f \in BagToSet(futures), d \in PingData :
        (Handling("WebsocketRecvComplete", "Connected") /\ RecvCompletes(f, StreamOk(Ping(d))))
        => /\ state' = state
           /\ futures' = Without(futures, f) (+) SetToBag({RecvFuture(state.websocket_recv)})
                                 (+) SetToBag({SendFuture(state.websocket_send, Pong(d))})]_vars

C9_Witness ==
    /\ LastHandled("WebsocketRecvComplete", "Connected")
    /\ state.tag = "Connected"
    /\ IsSome(state.active_id_val)
    /\ \E d \in PingData : SendFuture(state.websocket_send, Pong(d)) \in BagToSet(futures)

\* C10: in a Connected session the operations are applied in the order the
\* transport delivered them: an operation that is applied was received from
\* the transport of the session by the one receive that was armed on it, and
\* one receive is armed on it afterwards.
C10_AppliedInOrder ==
    [][\A f \in BagToSet(futures), t \in WellFormedTexts :
        (Handling("WebsocketRecvComplete", "Connected") /\ RecvCompletes(f, StreamOk(Text(t))))
        => /\ f.ws = state.websocket_recv
           /\ CopiesIn(RecvFuture(state.websocket_recv), futures) = 1
           /\ CopiesIn(RecvFuture(state.websocket_recv), futures') = 1]_vars

----------------------------------------------------------------------------
(* The send path.  Todos::send spawns a future that takes the lock of the  *)
(* sink, writes its frame and posts WebsocketSendComplete; here the future *)
(* is followed through these steps.  A send future without pc waits for    *)
(* the lock, one with pc "writing" holds it.  The history counts the sends *)
(* issued and the writes done in the session.                              *)

MaxSends == 3

SendsIn(bag) ==
    BagCardinality([f \in {g \in BagToSet(bag) : g.fut = "send"} |-> CopiesIn(f, bag)])

\* the send future once sink.lock().await has returned the guard
WritingFuture(f) == [fut |-> "send", ws |-> f.ws, msg |-> f.msg, pc |-> "writing"]

IsWriting(f) == f.fut = "send" /\ "pc" \in DOMAIN f

WritingOn(ws, bag) ==
    BagCardinality([f \in {g \in BagToSet(bag) : IsWriting(g) /\ g.ws = ws} |-> CopiesIn(f, bag)])

\* a lock that is handed out while it is held
sink_free_always(ws, bag) == TRUE

\* tokio::sync::Mutex::lock returns once no other guard of the sink is alive
sink_free(ws, bag) == WritingOn(ws, bag) = 0

SendInit ==
    /\ nocache = TRUE
    /\ cache = None
    /\ dock = DockOpen
    /\ state = ConnectedState("K1", Websocket(1, "K1"), Websocket(1, "K1"))
    /\ futures = recv(Websocket(1, "K1"))
    /\ handled = [type |-> "ConnectAttemptComplete", tag |-> "NotConnected",
                  issued |-> 0, written |-> 0]

\* update handles m and the history counts the sends it issued
SendStep(m, futs) ==
    /\ Handle(m, 1, "t1", futs)
    /\ handled.issued + SendsIn(futures') - SendsIn(futs) <= MaxSends
    /\ handled' = [type |-> m.type, tag |-> state.tag,
                   issued |-> handled.issued + SendsIn(futures') - SendsIn(futs),
                   written |-> handled.written]

\* the server sends a task or a Ping
SendRecvItems == {StreamOk(Text(to_string(WebsocketOp(1, InsLiveTask("a", "t1"))))), StreamOk(Ping("p1"))}

SendRecv ==
    \E f \in BagToSet(futures), item \in SendRecvItems :
        /\ f.fut = "recv"
        /\ state.tag = "Connected" /\ Len(state.snapshot.live) < MaxLive
        /\ SendStep(WebsocketRecvComplete(item), Without(futures, f))

\* the user finishes a task, begins an edit, types, ends the edit
SendUser ==
    /\ state.tag = "Connected"
    /\ \E m \in {MessageOp(Op_Pop(id, "Succeeded")) : id \in LiveIds}
                \cup {SetActive(Some(id)) : id \in LiveIds}
                \cup {SetActive(None)}
                \cup (IF IsSome(state.active_id_val) THEN {EditActive("b")} ELSE {}) :
          SendStep(m, futures)

\* sink.lock().await returns the guard to one of the waiting sends
SendLock ==
    \E f \in BagToSet(futures) :
        /\ f.fut = "send" /\ ~IsWriting(f)
        /\ sink_free(f.ws, futures)
        /\ futures' = Without(futures, f) (+) SetToBag({WritingFuture(f)})
        /\ UNCHANGED <<state, nocache, cache, dock, handled>>

\* the write ends, the guard is dropped and the result reaches update
SendComplete ==
    \E f \in BagToSet(futures), res \in SendResults :
        /\ IsWriting(f)
        /\ Handle(WebsocketSendComplete(res), 1, "t1", Without(futures, f))
        /\ handled' = [type |-> "WebsocketSendComplete", tag |-> state.tag,
                       issued |-> handled.issued,
                       written |-> handled.written + (IF res.ok THEN 1 ELSE 0)]

SendNext ==
    \/ SendRecv
    \/ SendUser
    \/ SendLock
    \/ SendComplete

SpecSend == SendInit /\ [][SendNext]_vars

\* C11: on one transport at most one send is writing to the sink at any time,
\* whether it carries an operation of the user or a Pong; and while the
\* session stays Connected every send that was issued has been written once
\* or is still waiting or writing: none is dropped and none is written twice.
C11_SerializedSends ==
    /\ \A f \in BagToSet(futures) : f.fut = "send" => WritingOn(f.ws, futures) <= 1
    /\ state.tag = "Connected" => handled.issued = handled.written + SendsIn(futures)

\* a Pong and an operation of the user contend for the sink after a write
C11_Witness ==
    /\ state.tag = "Connected"
    /\ handled.written >= 1
    /\ \E f, g \in BagToSet(futures) :
        /\ IsWriting(f) /\ g.fut = "send" /\ ~IsWriting(g) /\ g.ws = f.ws
        /\ {f.msg.frame, g.msg.frame} = {"Pong", "Text"}

----------------------------------------------------------------------------
(* Results of an earlier session *)

\* C12: the result of a send or a receive that was started on the transport of
\* an earlier Connected session, arriving in a later Connected session, is
\* discarded: the state, the snapshot and the active edit stay as they are,
\* the session is not torn down and no receive is re-armed.
C12_StaleResultsDiscarded ==
    [][/\ \A f \in BagToSet(futures), item \in StreamItems :
            (Handling("WebsocketRecvComplete", "Connected") /\ RecvCompletes(f, item)
                /\ f.ws /= state.websocket_recv)
            => state' = state /\ futures' = Without(futures, f)
       /\ \A f \in BagToSet(futures), res \in SendResults :
            (Handling("WebsocketSendComplete", "Connected") /\ SendCompletes(f, res)
                /\ f.ws /= state.websocket_send)
            => state' = state /\ futures' = Without(futures, f)]_vars

----------------------------------------------------------------------------
(* The operation log.  A Connected session holds a snapshot whose ids are  *)
(* distinct and receives an operation that names tasks; the history keeps *)
(* the snapshot the run started from and the operations received since.   *)

MaxTasks == 3

AllOpIds == <<"a", "b", "c", "d", "e">>
OpIds == {AllOpIds[i] : i \in 1..MaxTasks}

\* an id that no task of the snapshots has
AbsentId == "zz"
NamedIds == OpIds \cup {AbsentId}

\* the text each task has in the snapshots the runs start from
AllOpValues == <<"A", "B", "C", "D", "E">>
OpValue == [id \in OpIds |-> AllOpValues[CHOOSE i \in 1..Len(AllOpIds) : AllOpIds[i] = id]]

\* the sequences that hold every element of S once
Perms(S) == {q \in [1..Cardinality(S) -> S] : \A i, j \in 1..Cardinality(S) : q[i] = q[j] => i = j}

DistinctSeqs(S) == UNION {Perms(L) : L \in SUBSET S}

Range(q) == {q[i] : i \in 1..Len(q)}

OpsSnapshots ==
    {StateSnapshot([i \in 1..Len(p[1]) |-> LiveTask(p[1][i], OpValue[p[1][i]])],
                   [i \in 1..Len(p[2]) |-> FinishedTask(p[2][i], OpValue[p[2][i]], "Failed")])
        : p \in {q \in DistinctSeqs(OpIds) \X DistinctSeqs(OpIds) : Range(q[1]) \cap Range(q[2]) = {}}}

Ids(q) == {q[i].id : i \in 1..Len(q)}

OpsInit ==
    /\ nocache = TRUE
    /\ cache = None
    /\ dock = DockOpen
    /\ \E snap \in OpsSnapshots, a \in {None} \cup {Some(<<id, "buffer">>) : id \in OpIds} :
        /\ IsSome(a) => Unwrap(a)[1] \in Ids(snap.live)
        /\ state = [ConnectedState("K1", Websocket(1, "K1"), Websocket(1, "K1"))
                        EXCEPT !.snapshot = snap, !.active_id_val = a]
        /\ handled = [type |-> "ConnectAttemptComplete", tag |-> "NotConnected",
                      start |-> snap, active |-> a, log |-> <<>>]
    /\ futures = recv(Websocket(1, "K1"))

\* the operation received last
LastOp == IF handled.log = <<>> THEN [kind |-> "None"] ELSE handled.log[Len(handled.log)]

\* a run applies one operation to the snapshot it starts from, and after a
\* FinishLiveTask the RestoreFinishedTask of the same id
OpsTurn(op) ==
    \/ handled.log = <<>>
    \/ /\ Len(handled.log) = 1
       /\ LastOp.kind = "FinishLiveTask"
       /\ op = RestoreFinishedTask(LastOp.id)

\* the receive of the session yields the operation as a Text frame
OpsApply(op) ==
    /\ OpsTurn(op)
    /\ RecvFuture(state.websocket_recv) \in BagToSet(futures)
    /\ Handle(WebsocketRecvComplete(StreamOk(Text(to_string(WebsocketOp(1, op))))), 1, "t1",
              Without(futures, RecvFuture(state.websocket_recv)))
    /\ handled' = [type |-> "WebsocketRecvComplete", tag |-> "Connected",
                   start |-> handled.start, active |-> handled.active,
                   log |-> Append(handled.log, op)]

OpsEdit ==
    /\ state.tag = "Connected"
    /\ \E id \in NamedIds : OpsApply(EditLiveTask(id, "edited"))

OpsDel ==
    /\ state.tag = "Connected"
    /\ \E id \in NamedIds : OpsApply(DelLiveTask(id))

OpsFinish ==
    /\ state.tag = "Connected"
    /\ \E id \in NamedIds, status \in {"Succeeded", "Obsoleted"} :
        OpsApply(FinishLiveTask(id, status))

OpsRestore ==
    /\ state.tag = "Connected"
    /\ \E id \in NamedIds : OpsApply(RestoreFinishedTask(id))

OpsMv ==
    /\ state.tag = "Connected"
    /\ \E id_del, id_ins \in NamedIds : OpsApply(MvLiveTask(id_del, id_ins))

OpsRev ==
    /\ state.tag = "Connected"
    /\ \E id1, id2 \in NamedIds : OpsApply(RevLiveTask(id1, id2))

\* the snapshots an OverwriteState carries: empty, two live tasks, a live and
\* a finished task, and two that hold an id twice
OverwriteSnapshots ==
    {StateSnapshot(<<>>, <<>>),
     StateSnapshot(<<LiveTask("b", "B2"), LiveTask("a", "A2")>>, <<>>),
     StateSnapshot(<<LiveTask("a", "A2")>>, <<FinishedTask("b", "B2", "Succeeded")>>),
     StateSnapshot(<<LiveTask("a", "A2"), LiveTask("a", "A3")>>, <<>>),
     StateSnapshot(<<LiveTask("a", "A2")>>, <<FinishedTask("a", "A2", "Failed")>>)}

OpsOverwrite ==
    /\ state.tag = "Connected"
    /\ \E s \in OverwriteSnapshots : OpsApply(OverwriteState(s))

OpsIns ==
    /\ state.tag = "Connected"
    /\ \E id \in NamedIds : OpsApply(InsLiveTask("new", id))

OpsNext ==
    \/ OpsOverwrite
    \/ OpsIns
    \/ OpsEdit
    \/ OpsDel
    \/ OpsFinish
    \/ OpsRestore
    \/ OpsMv
    \/ OpsRev

SpecOps == OpsInit /\ [][OpsNext]_vars

Live == state.snapshot.live
Finished == state.snapshot.finished

\* the step leaves live, finished and the active edit as they are
OpsUnchanged == state'.snapshot = state.snapshot /\ state'.active_id_val = state.active_id_val

\* C13: an operation that names an id absent from the list it addresses is a
\* no-op: EditLiveTask, DelLiveTask and FinishLiveTask with an id not in live,
\* RestoreFinishedTask with an id not in finished, MvLiveTask and RevLiveTask
\* with either id not in live leave live, finished and the active edit as
\* they are.
C13_AbsentIdNoOp ==
    [][/\ \A id \in NamedIds \ Ids(Live) :
            /\ OpsApply(EditLiveTask(id, "edited")) => OpsUnchanged
            /\ OpsApply(DelLiveTask(id)) => OpsUnchanged
            /\ \A status \in TaskStatus : OpsApply(FinishLiveTask(id, status)) => OpsUnchanged
       /\ \A id \in NamedIds \ Ids(Finished) :
            OpsApply(RestoreFinishedTask(id)) => OpsUnchanged
       /\ \A id1, id2 \in NamedIds :
            ({id1, id2} \ Ids(Live) /= {})
            => /\ OpsApply(MvLiveTask(id1, id2)) => OpsUnchanged
               /\ OpsApply(RevLiveTask(id1, id2)) => OpsUnchanged]_vars

\* a FinishLiveTask that names an id no task has was received by a session
\* with two live tasks and an edit under way
C13_Witness ==
    /\ LastOp = FinishLiveTask(AbsentId, "Succeeded")
    /\ IsSome(state.active_id_val)
    /\ Len(Live) >= 2

\* the tasks of q other than the task id, in their order
Others(q, id) == SelectSeq(q, LAMBDA x : x.id /= id)

\* the task id sits immediately before the task next
ImmediatelyBefore(q, id, next) ==
    /\ IsSome(position(q, id))
    /\ IsSome(position(q, next))
    /\ Unwrap(position(q, id)) + 1 = Unwrap(position(q, next))

\* C14: for a live list with distinct ids and distinct ids id_del, id_ins both
\* in live, after MvLiveTask{id_del, id_ins} the task id_del sits immediately
\* before the task id_ins and all other tasks keep their relative order.
C14_MvImmediatelyBefore ==
    \A id_del, id_ins \in Ids(handled.start.live) :
        (id_del /= id_ins /\ handled.log = <<MvLiveTask(id_del, id_ins)>>)
        => /\ ImmediatelyBefore(Live, id_del, id_ins)
           /\ Others(Live, id_del) = Others(handled.start.live, id_del)

Min(a, b) == IF a <= b THEN a ELSE b
Max(a, b) == IF a <= b THEN b ELSE a

\* q2 is q with the places lo..hi (counted from 1) in the opposite order
ReversedBetween(q, q2, lo, hi) ==
    /\ Len(q2) = Len(q)
    /\ \A i \in 1..Len(q) :
        q2[i] = IF lo <= i /\ i <= hi THEN q[lo + hi - i] ELSE q[i]

\* C15: for a live list with distinct ids and ids id1, id2 both in live,
\* RevLiveTask{id1, id2} reverses exactly the range between their positions,
\* both included, and leaves the tasks outside it, the finished list and the
\* active edit as they are; RevLiveTask{id2, id1} gives the same result.
C15_RevReversesRange ==
    [][\A id1, id2 \in Ids(Live) :
            OpsApply(RevLiveTask(id1, id2))
            => LET p1 == Unwrap(position(Live, id1)) + 1
                   p2 == Unwrap(position(Live, id2)) + 1
               IN
               /\ ReversedBetween(Live, state'.snapshot.live, Min(p1, p2), Max(p1, p2))
               /\ state'.snapshot.finished = Finished
               /\ state'.active_id_val = state.active_id_val
               /\ apply_operation(state.snapshot, state.active_id_val, RevLiveTask(id2, id1))
                    = [snapshot |-> state'.snapshot, active_id_val |-> state'.active_id_val]]_vars

\* RevLiveTask{a, c} was received with a and c live at the two ends of three
\* tasks, a finished task and an edit under way
C15_Witness ==
    /\ LastOp = RevLiveTask("a", "c")
    /\ Len(Live) = 3
    /\ Live[1].id = "c"
    /\ Live[3].id = "a"
    /\ IsSome(state.active_id_val)

\* the value the task id has in q
ValueOf(q, id) == q[Unwrap(position(q, id)) + 1].value

\* C16: for a snapshot with distinct ids and an id a in live, FinishLiveTask{a,
\* status} and then RestoreFinishedTask{a} leave a at the front of live with
\* its value unchanged, leave finished as it was before the pair, without a,
\* and keep the relative order of all other live tasks.
C16_FinishThenRestore ==
    [][\A a \in Ids(handled.start.live) :
            (/\ Len(handled.log) = 1
             /\ LastOp.kind = "FinishLiveTask"
             /\ LastOp.id = a
             /\ OpsApply(RestoreFinishedTask(a)))
            => /\ state'.snapshot.live[1] = LiveTask(a, ValueOf(handled.start.live, a))
               /\ state'.snapshot.finished = handled.start.finished
               /\ a \notin Ids(state'.snapshot.finished)
               /\ Others(state'.snapshot.live, a) = Others(handled.start.live, a)]_vars

\* the task b, last of three live tasks, was finished and then restored
C16_Witness ==
    /\ handled.log = <<FinishLiveTask("b", "Obsoleted"), RestoreFinishedTask("b")>>
    /\ Len(handled.start.live) = 3
    /\ handled.start.live[3].id = "b"
    /\ Live[1].id = "b"

\* C34: OverwriteState(s) replaces live and finished with exactly s.live and
\* s.finished whatever the snapshot was before, and always sets the active
\* edit to None, even when the edited id is still in s.live.
C34_OverwriteReplaces ==
    [][\A s \in OverwriteSnapshots :
            OpsApply(OverwriteState(s))
            => /\ state'.snapshot.live = s.live
               /\ state'.snapshot.finished = s.finished
               /\ state'.active_id_val = None]_vars

\* an OverwriteState whose live holds a was received while a was under edit,
\* with three live tasks and a snapshot that differs from the one received
C34_Witness ==
    /\ handled.log = <<OverwriteState(StateSnapshot(<<LiveTask("b", "B2"), LiveTask("a", "A2")>>, <<>>))>>
    /\ handled.active = Some(<<"a", "buffer">>)
    /\ Len(handled.start.live) = 3
    /\ state.active_id_val = None
    /\ Len(Live) = 2

\* the ids of the tasks of a snapshot
AllIds(snap) == Ids(snap.live) \cup Ids(snap.finished)

\* the ids of live and finished are pairwise distinct
DistinctIds(snap) == Len(snap.live) + Len(snap.finished) = Cardinality(AllIds(snap))

\* the operation meets the condition on what the server sends: an InsLiveTask
\* carries an id the snapshot has nowhere, an OverwriteState a snapshot whose
\* ids are pairwise distinct
FreshIns(snap, op) ==
    /\ op.kind = "InsLiveTask" => op.id \notin AllIds(snap)
    /\ op.kind = "OverwriteState" => DistinctIds(op.s)

\* C37: if every received InsLiveTask carries an id that is nowhere in the
\* snapshot and every received OverwriteState a snapshot with pairwise
\* distinct ids, the ids of live and finished stay pairwise distinct, and
\* Edit, Mv, Rev, Finish and Restore keep the set of ids of live and finished.
C37_IdsStayDistinct ==
    [][LET op == handled'.log[Len(handled'.log)] IN
       (/\ state.tag = "Connected"
        /\ DistinctIds(state.snapshot)
        /\ FreshIns(state.snapshot, op)
        /\ OpsApply(op))
       => /\ state'.tag = "Connected"
          /\ DistinctIds(state'.snapshot)
          /\ op.kind \in {"EditLiveTask", "MvLiveTask", "RevLiveTask", "FinishLiveTask",
                           "RestoreFinishedTask"}
                => AllIds(state'.snapshot) = AllIds(state.snapshot)]_vars

\* a task finished and restored, in a snapshot of three live and no finished
\* tasks: the ids are the three it started with
C37_Witness ==
    /\ Len(handled.log) = 2
    /\ LastOp.kind = "RestoreFinishedTask"
    /\ Len(handled.start.live) = 3
    /\ DistinctIds(state.snapshot)
    /\ AllIds(state.snapshot) = AllIds(handled.start)
    /\ Len(Live) = 3

\* C36: for a live list with distinct ids and ids id_del, id_ins both in
\* live, MvLiveTask{id_del, id_ins} places the task id_del at the index that
\* id_ins had before the move, keeps the relative order of all other tasks,
\* keeps live a permutation of what it was and leaves finished and the active
\* edit unchanged; with id_del = id_ins the list is unchanged.
C36_MvToIndexOfIns ==
    [][\A id_del, id_ins \in Ids(Live) :
            OpsApply(MvLiveTask(id_del, id_ins))
            => LET ins_pos == Unwrap(position(Live, id_ins)) + 1
                   del_pos == Unwrap(position(Live, id_del)) + 1
               IN
               /\ Len(state'.snapshot.live) = Len(Live)
               /\ state'.snapshot.live[ins_pos] = Live[del_pos]
               /\ Others(state'.snapshot.live, id_del) = Others(Live, id_del)
               /\ Range(state'.snapshot.live) = Range(Live)
               /\ state'.snapshot.finished = Finished
               /\ state'.active_id_val = state.active_id_val
               /\ id_del = id_ins => state'.snapshot.live = Live]_vars

\* MvLiveTask{a, c} was received with a first and c last of three live tasks
\* and an edit under way: a is last now
C36_Witness ==
    /\ LastOp = MvLiveTask("a", "c")
    /\ Len(handled.start.live) = 3
    /\ handled.start.live[1].id = "a"
    /\ handled.start.live[3].id = "c"
    /\ Live[3].id = "a"
    /\ Live[1].id = "b"
    /\ IsSome(state.active_id_val)

----------------------------------------------------------------------------
(* The session log.  A session that has just connected receives operations *)
(* while the user opens, types in and closes the editor of a task; every   *)
(* send succeeds.  The history keeps the message handled last, the active  *)
(* edit it found and the ids of the rows the view showed before it.        *)

\* the text of each task
LogValue == [id \in TaskIds |-> IF id = "t1" THEN "a" ELSE "b"]

\* the state a server holds when the session connects
LogSnapshots ==
    {StateSnapshot(<<LiveTask("t1", LogValue["t1"]), LiveTask("t2", LogValue["t2"])>>, <<>>)}

\* the operations the server forwards
LogOps ==
    {OverwriteState(snap) : snap \in LogSnapshots}
    \cup {InsLiveTask(LogValue[id], id) : id \in TaskIds}
    \cup {RestoreFinishedTask(id) : id \in TaskIds}
    \cup {EditLiveTask("t1", LogValue["t2"])}
    \cup {DelLiveTask(id) : id \in TaskIds}
    \cup {FinishLiveTask(id, "Succeeded") : id \in TaskIds}
    \cup {MvLiveTask("t1", "t2"), MvLiveTask("t2", "t1"), RevLiveTask("t1", "t2")}

ReceivedOp(op) == WebsocketRecvComplete(StreamOk(Text(to_string(WebsocketOp(1, op)))))

LogInit ==
    /\ nocache = TRUE
    /\ cache = None
    /\ dock = DockOpen
    /\ state = ConnectedState("K1", Websocket(1, "K1"), Websocket(1, "K1"))
    /\ futures = recv(Websocket(1, "K1"))
    /\ handled = [type |-> "ConnectAttemptComplete", tag |-> "NotConnected",
                  message |-> ConnectAttemptComplete(Ok(Halves(Websocket(1, "K1")))),
                  active |-> None, rows |-> {}]

\* a run follows the session while the dock is expanded
LogStep(m, futs) ==
    LET r == update(m, 1, "t1") IN
    /\ dock.expanded
    /\ WithinBounds(r.state, futs (+) r.cmd)
    /\ r.state.tag = "Connected"
        => Len(r.state.snapshot.live) + Len(r.state.snapshot.finished) <= MaxLive
    /\ Handle(m, 1, "t1", futs)
    /\ handled' = [type |-> m.type, tag |-> state.tag, message |-> m,
                   active |-> IF state.tag = "Connected" THEN state.active_id_val ELSE None,
                   rows |-> LiveIds]

\* the receive of the session yields an operation as a Text frame
LogRecv ==
    /\ state.tag = "Connected"
    /\ RecvFuture(state.websocket_recv) \in BagToSet(futures)
    /\ \E op \in LogOps :
        LogStep(ReceivedOp(op), Without(futures, RecvFuture(state.websocket_recv)))

\* the frames that carry no operation, the transport errors and the end of
\* the stream
LogFrames ==
    {StreamEnd, StreamErr("Connection reset without closing handshake")}
    \cup {StreamOk(Text(t)) : t \in MalformedTexts}
    \cup {StreamOk(Binary)}
    \cup {StreamOk(Ping(d)) : d \in PingData}
    \cup {StreamOk(Pong(d)) : d \in PingData}
    \cup {StreamOk(Close(f)) : f \in CloseFrames}

\* the receive of the session yields one of them
LogRecvFrame ==
    /\ state.tag = "Connected"
    /\ RecvFuture(state.websocket_recv) \in BagToSet(futures)
    /\ \E item \in LogFrames :
        LogStep(WebsocketRecvComplete(item), Without(futures, RecvFuture(state.websocket_recv)))

\* a send of the session has written its message
LogSendComplete ==
    \E f \in BagToSet(futures) :
        /\ f.fut = "send"
        /\ LogStep(WebsocketSendComplete(Ok(Unit)), Without(futures, f))

\* the user opens the editor of a live task, or leaves the editor
LogSetActive ==
    /\ state.tag = "Connected"
    /\ \E a \in {None} \cup {Some(id) : id \in LiveIds} : LogStep(SetActive(a), futures)

\* a key typed in the editor; the message can reach update after a received
\* operation has closed the editor
LogEditActive ==
    /\ state.tag = "Connected"
    /\ \E v \in TypedValues : LogStep(EditActive(v), futures)

\* update is handed the intent to edit a row that the view showed before the
\* message handled last, a received operation that took the task of the row
\* out of live
LogSetActiveStale ==
    /\ state.tag = "Connected"
    /\ \E id \in handled.rows \ LiveIds : LogStep(SetActive(Some(id)), futures)

\* the user collapses the dock
LogCollapseDock ==
    /\ state.tag = "Connected"
    /\ LogStep(CollapseDock, futures)

LogNext ==
    \/ LogRecv
    \/ LogRecvFrame
    \/ LogSendComplete
    \/ LogSetActive
    \/ LogSetActiveStale
    \/ LogEditActive
    \/ LogCollapseDock

SpecLog == LogInit /\ [][LogNext]_vars

FinishedIds == IF state.tag = "Connected" THEN Ids(state.snapshot.finished) ELSE {}

\* C17: in every reachable Connected state, if the active edit is Some((id, _))
\* then id is the id of a task in snapshot.live; a received FinishLiveTask or
\* DelLiveTask that names the edited id sets the active edit to None.
C17_ActiveEditIsLive ==
    /\ [](state.tag = "Connected" /\ IsSome(state.active_id_val)
            => Unwrap(state.active_id_val)[1] \in LiveIds)
    /\ [][\A id \in TaskIds : \A op \in {DelLiveTask(id), FinishLiveTask(id, "Succeeded")} :
            (/\ state.tag = "Connected"
             /\ IsSome(state.active_id_val)
             /\ Unwrap(state.active_id_val)[1] = id
             /\ handled'.message = ReceivedOp(op))
            => state'.tag = "Connected" /\ state'.active_id_val = None]_vars

\* a DelLiveTask of t1 was received while the user was editing t1, with
\* another task live
C17_Witness ==
    /\ handled.message = ReceivedOp(DelLiveTask("t1"))
    /\ handled.active = Some(<<"t1", "b">>)
    /\ state.active_id_val = None
    /\ LiveIds = {"t2"}

\* C18: in every reachable Connected state, after any sequence of received
\* operations, the ids in live and the ids in finished are disjoint.
C18_LiveFinishedDisjoint == state.tag = "Connected" => LiveIds \cap FinishedIds = {}

\* the send of the EditLiveTask that commits the buffer value of the task id
CommitOf(id, value) ==
    SendFuture(state.websocket_send, Text(to_string(WebsocketOp(1, EditLiveTask(id, value)))))

\* C19: SetActive(Some(id)) and SetActive(None) handled while Connected: if a
\* different id p was under edit with buffer v, exactly one EditLiveTask{p, v}
\* is emitted, and if nothing was under edit no operation is emitted;
\* afterwards the active edit is Some((id, the value id has in snapshot.live))
\* or None, and the snapshot is unchanged.
C19_SetActiveCommits ==
    [][\A a \in {None} \cup {Some(id) : id \in LiveIds} :
            (/\ state.tag = "Connected"
             /\ handled'.type = "SetActive"
             /\ LogStep(SetActive(a), futures))
            => /\ state'.tag = "Connected"
               /\ state'.snapshot = state.snapshot
               /\ state'.active_id_val =
                    IF IsSome(a) THEN Some(<<Unwrap(a), ValueOf(Live, Unwrap(a))>>) ELSE None
               /\ state.active_id_val = None => futures' = futures
               /\ (IsSome(state.active_id_val) /\ a /= Some(Unwrap(state.active_id_val)[1]))
                    => futures' = futures (+) SetToBag({CommitOf(Unwrap(state.active_id_val)[1],
                                                                Unwrap(state.active_id_val)[2])})]_vars

\* the user, editing t1 with a buffer that differs from the text of t1, opened
\* the editor of t2: the buffer of t1 is on its way and t2 is under edit
C19_Witness ==
    /\ handled.message = SetActive(Some("t2"))
    /\ handled.active = Some(<<"t1", "b">>)
    /\ state.active_id_val = Some(<<"t2", LogValue["t2"]>>)
    /\ ValueOf(Live, "t1") = "a"
    /\ CommitOf("t1", "b") \in BagToSet(futures)

\* C20: EditActive changes only the text buffer of the active edit: the edited
\* id, the snapshot, the input line and the session variant are unchanged and
\* no operation is sent; when nothing is under edit it changes nothing at all.
C20_EditActiveOnlyBuffer ==
    [][\A v \in TypedValues :
            (/\ state.tag = "Connected"
             /\ handled'.type = "EditActive"
             /\ LogStep(EditActive(v), futures))
            => /\ futures' = futures
               /\ cache' = cache
               /\ DOMAIN state' = DOMAIN state
               /\ \A field \in DOMAIN state \ {"active_id_val"} : state'[field] = state[field]
               /\ IsSome(state.active_id_val)
                    => state'.active_id_val = Some(<<Unwrap(state.active_id_val)[1], v>>)
               /\ state.active_id_val = None => state' = state]_vars

\* the user typed b in the editor of t1, whose text is a
C20_Witness ==
    /\ handled.message = EditActive("b")
    /\ handled.active = Some(<<"t1", "a">>)
    /\ state.active_id_val = Some(<<"t1", "b">>)
    /\ ValueOf(Live, "t1") = "a"

\* C33: a remote EditLiveTask that names the id under local edit updates the
\* value of the task in the snapshot and leaves the active edit, id and local
\* buffer, as it is; the commit emitted later carries the local buffer, so the
\* local text overwrites the remote one.
C33_RemoteEditKeepsBuffer ==
    [][/\ \A id \in TaskIds, v \in {LogValue[t] : t \in TaskIds} :
            (/\ state.tag = "Connected"
             /\ IsSome(state.active_id_val)
             /\ Unwrap(state.active_id_val)[1] = id
             /\ handled'.message = ReceivedOp(EditLiveTask(id, v)))
            => /\ state'.tag = "Connected"
               /\ state'.active_id_val = state.active_id_val
               /\ ValueOf(state'.snapshot.live, id) = v
               /\ Others(state'.snapshot.live, id) = Others(Live, id)
               /\ Len(state'.snapshot.live) = Len(Live)
               /\ state'.snapshot.finished = Finished
       /\ \A a \in {None} \cup {Some(id) : id \in LiveIds} :
            (/\ state.tag = "Connected"
             /\ IsSome(state.active_id_val)
             /\ ValueOf(Live, Unwrap(state.active_id_val)[1]) /= Unwrap(state.active_id_val)[2]
             /\ handled'.message = SetActive(a)
             /\ LogStep(SetActive(a), futures))
            => futures' = futures (+) SetToBag({CommitOf(Unwrap(state.active_id_val)[1],
                                                        Unwrap(state.active_id_val)[2])})]_vars

\* the user opened the editor of t1 with the text a; the server then sent an
\* edit of t1 to b; the user left the editor: the commit carries a
C33_Witness ==
    /\ handled.message = SetActive(None)
    /\ handled.active = Some(<<"t1", "a">>)
    /\ ValueOf(Live, "t1") = "b"
    /\ CommitOf("t1", "a") \in BagToSet(futures)

\* C26: no input from the network aborts the program: for every frame the
\* transport delivers (a Text payload that decodes or not, an operation of any
\* kind naming ids that are live, finished, both or neither, Ping, Pong,
\* Binary, Close with or without a reason, a transport error, the end of the
\* stream) the receive handler returns and leaves the session Connected,
\* NotConnected or NotLoggedIn.
C26_RecvNeverAborts ==
    [][(state.tag = "Connected" /\ handled'.type = "WebsocketRecvComplete")
            => state'.tag \in {"Connected", "NotConnected", "NotLoggedIn"}]_vars

\* a Text frame that does not decode arrived while the user was editing t1:
\* the session is NotConnected
C26_Witness ==
    /\ handled.message = WebsocketRecvComplete(StreamOk(Text(<<"garbage">>)))
    /\ handled.active = Some(<<"t1", "b">>)
    /\ state.tag = "NotConnected"

\* C27: every local user action that ends an edit in progress (the active
\* edit goes from Some((id, v)) to None or to another id, collapsing the dock
\* included) emits the commit EditLiveTask{id, v}; a local action never
\* discards the buffer unsent.
C27_LocalEndOfEditCommits ==
    [][(/\ state.tag = "Connected"
        /\ state'.tag = "Connected"
        /\ handled'.type \in {"SetActive", "CollapseDock"}
        /\ IsSome(state.active_id_val)
        /\ \/ state'.active_id_val = None
           \/ Unwrap(state'.active_id_val)[1] /= Unwrap(state.active_id_val)[1])
            => futures' = futures (+) SetToBag({CommitOf(Unwrap(state.active_id_val)[1],
                                                        Unwrap(state.active_id_val)[2])})]_vars

----------------------------------------------------------------------------
(* The command line of a Connected session.  The user types a line and     *)
(* submits it; the server forwards the operation sent, if any, back to the *)
(* session.  The history keeps the snapshot and the active edit the run    *)
(* started from and the line submitted.                                    *)

\* the id a new task gets
FreshId == "new"

InputInit ==
    /\ nocache = TRUE
    /\ cache = None
    /\ dock = DockOpen
    /\ \E snap \in OpsSnapshots, a \in {None} \cup {Some(<<id, "buffer">>) : id \in OpIds} :
        /\ IsSome(a) => (snap.live /= <<>> /\ Unwrap(a)[1] = snap.live[1].id)
        /\ state = [ConnectedState("K1", Websocket(1, "K1"), Websocket(1, "K1"))
                        EXCEPT !.snapshot = snap, !.active_id_val = a]
        /\ handled = [type |-> "ConnectAttemptComplete", tag |-> "NotConnected",
                      start |-> snap, active |-> a, line |-> ""]
    /\ futures = recv(Websocket(1, "K1"))

InputStep(m, futs, line) ==
    /\ Handle(m, 1, FreshId, futs)
    /\ handled' = [type |-> m.type, tag |-> state.tag, start |-> handled.start,
                   active |-> handled.active, line |-> line]

\* the user types a line into the input of the new task
InputEdit ==
    /\ state.tag = "Connected"
    /\ handled.type = "ConnectAttemptComplete"
    /\ \E tokens \in InputLines : InputStep(EditInput(Join(tokens)), futures, "")

\* the user presses enter
InputSubmit ==
    /\ state.tag = "Connected"
    /\ handled.type = "EditInput"
    /\ InputStep(SubmitInput, futures, state.input_value)

\* instead of typing a line the user presses a button of a live row, opens
\* or leaves the editor of a task, or types in the editor
InputIntent ==
    /\ state.tag = "Connected"
    /\ handled.type = "ConnectAttemptComplete"
    /\ \E m \in {MessageOp(Op_Pop(id, status)) : id \in LiveIds, status \in TaskStatus}
                \cup {SetActive(a) : a \in {None} \cup {Some(id) : id \in LiveIds}}
                \cup {EditActive(v) : v \in IF IsSome(state.active_id_val) THEN TypedValues ELSE {}} :
        InputStep(m, futures, "")

\* the message of a future that only posts it is handled
InputPosted ==
    \E f \in BagToSet(futures) :
        /\ f.fut = "message"
        /\ InputStep(f.message, Without(futures, f), handled.line)

\* the server forwards the operation the session sent
InputEcho ==
    /\ state.tag = "Connected"
    /\ handled.type \in {"SubmitInput", "Op", "SetActive"}
    /\ RecvFuture(state.websocket_recv) \in BagToSet(futures)
    /\ \E f \in BagToSet(futures) :
        /\ f.fut = "send"
        /\ InputStep(WebsocketRecvComplete(StreamOk(f.msg)),
                     Without(futures, RecvFuture(state.websocket_recv)), handled.line)

InputNext ==
    \/ InputEdit
    \/ InputIntent
    \/ InputSubmit
    \/ InputPosted
    \/ InputEcho

SpecInput == InputInit /\ [][InputNext]_vars

\* the step is SubmitInput handling the line in a Connected session
Submitting(tokens) ==
    /\ state.tag = "Connected"
    /\ state.input_value = Join(tokens)
    /\ handled'.type = "SubmitInput"

\* the lines that are a command pattern of the table
CommandLines ==
    {Line0(verb) : verb \in {"s", "f", "o", "r", "mv", "q", "t", "c"}}
    \cup {Line1(verb, NumWords[i]) : verb \in {"mv", "rev", "q"}, i \in 1..Len(NumWords)}
    \cup {Line2(verb, NumWords[i], NumWords[j]) : verb \in {"mv", "rev"}, i, j \in 1..3}

\* C21: for every submitted line that is no command pattern of the table,
\* SubmitInput while Connected emits exactly one InsLiveTask whose value is
\* the entire line and whose id is freshly generated.
C21_OtherLinesInsert ==
    [][\A tokens \in InputLines \ CommandLines :
            Submitting(tokens)
            => /\ state'.tag = "Connected"
               /\ futures' = futures (+) SetToBag({SendFuture(state.websocket_send,
                    Text(to_string(WebsocketOp(1, InsLiveTask(Join(tokens), FreshId)))))})]_vars

\* the send of an operation on the sink of the session
SendOf(op) == SendFuture(state.websocket_send, Text(to_string(WebsocketOp(1, op))))

\* the step emits exactly this operation, or nothing
Emits(op) == futures' = futures (+) SetToBag({SendOf(op)})
EmitsNothing == futures' = futures

StatusOf(verb) == CASE verb = "s" -> "Succeeded" [] verb = "f" -> "Failed" [] verb = "o" -> "Obsoleted"

\* C22: submitting s, f or o while Connected emits exactly one FinishLiveTask
\* naming the id at the front of live with status Succeeded, Failed or
\* Obsoleted, and submitting r emits exactly one RestoreFinishedTask naming the
\* id at the front of finished; when the addressed list is empty nothing is
\* emitted.
C22_FrontVerbs ==
    [][/\ \A verb \in {"s", "f", "o"} :
            Submitting(Line0(verb))
            => IF Live /= <<>>
               THEN Emits(FinishLiveTask(Live[1].id, StatusOf(verb)))
               ELSE EmitsNothing
       /\ Submitting(Line0("r"))
            => IF Finished /= <<>>
               THEN Emits(RestoreFinishedTask(Finished[1].id))
               ELSE EmitsNothing]_vars

\* f was submitted with two or more live tasks: the FinishLiveTask of the
\* front task with status Failed is on its way
C22_Witness ==
    /\ handled.type = "SubmitInput"
    /\ handled.line = "f"
    /\ Len(handled.start.live) >= 2
    /\ SendOf(FinishLiveTask(handled.start.live[1].id, "Failed")) \in BagToSet(futures)

\* the value of an index word
IndexOf(i) == i - 1

\* the step leaves the session Connected with its snapshot and active edit
SessionKept ==
    /\ state'.tag = "Connected"
    /\ state'.snapshot = state.snapshot
    /\ state'.active_id_val = state.active_id_val

\* C23: mv, rev, q and r resolve positions to ids at submit time and emit an
\* operation only when every index given is a valid position: mv i with i in
\* range and more than one live task emits Move(id at i, id at position 0);
\* when an index is out of range nothing is emitted, the session stays
\* Connected and the snapshot and the active edit are unchanged.
C23_IndexVerbs ==
    [][/\ \A i \in 1..Len(NumWords) :
            /\ Submitting(Line1("mv", NumWords[i]))
                => /\ SessionKept
                   /\ IF IndexOf(i) < Len(Live) /\ Len(Live) > 1
                      THEN Emits(MvLiveTask(Live[i].id, Live[1].id))
                      ELSE EmitsNothing
            /\ \A verb \in {"rev", "q"} :
                Submitting(Line1(verb, NumWords[i]))
                => SessionKept /\ (IndexOf(i) >= Len(Live) => EmitsNothing)
            /\ Submitting(Line1("r", NumWords[i]))
                => SessionKept /\ (IndexOf(i) >= Len(Finished) => EmitsNothing)
       /\ \A i, j \in 1..3, verb \in {"mv", "rev"} :
            Submitting(Line2(verb, NumWords[i], NumWords[j]))
            => /\ SessionKept
               /\ (IndexOf(i) >= Len(Live) \/ IndexOf(j) >= Len(Live)) => EmitsNothing]_vars

\* "mv 2" was submitted with three live tasks and an edit open: the move of
\* the third task to the first is on its way
C23_Witness ==
    /\ handled.type = "SubmitInput"
    /\ handled.line = "mv 2"
    /\ Len(handled.start.live) = 3
    /\ IsSome(state.active_id_val)
    /\ SendOf(MvLiveTask(handled.start.live[3].id, handled.start.live[1].id)) \in BagToSet(futures)

\* C24: submitting mv with no index while Connected with at least two live
\* tasks emits one MvLiveTask over the front and the second live task: it
\* creates no task and is no silent no-op.
C24_BareMvMoves ==
    [][(Submitting(Line0("mv")) /\ Len(Live) >= 2)
        => \/ Emits(MvLiveTask(Live[1].id, Live[2].id))
           \/ Emits(MvLiveTask(Live[2].id, Live[1].id))]_vars

\* the lines of the verb q and the position each chooses
QLines == {<<Line0("q"), 0>>} \cup {<<Line1("q", NumWords[i]), IndexOf(i)>> : i \in 1..Len(NumWords)}

\* C25: when q or q i with i a valid position is submitted with at least two
\* live tasks and the MvLiveTask it emits is then applied to the same
\* snapshot, the chosen task is the last element of live and all other live
\* tasks keep their relative order.
C25_QMovesToBack ==
    [][\A ql \in QLines :
        LET chosen == handled.start.live[ql[2] + 1] IN
        (/\ Len(handled.start.live) >= 2
         /\ ql[2] < Len(handled.start.live))
        => /\ Submitting(ql[1]) => futures' /= futures
           /\ (/\ handled.type = "SubmitInput"
               /\ handled.line = Join(ql[1])
               /\ handled'.type = "WebsocketRecvComplete")
              => /\ state'.tag = "Connected"
                 /\ state'.snapshot.live[Len(state'.snapshot.live)] = chosen
                 /\ Others(state'.snapshot.live, chosen.id) = Others(handled.start.live, chosen.id)]_vars

\* "q 1" was submitted with three live tasks and its move came back from the
\* server: the second task is now the last
C25_Witness ==
    /\ handled.type = "WebsocketRecvComplete"
    /\ handled.line = "q 1"
    /\ Len(handled.start.live) = 3
    /\ Len(Live) = 3
    /\ Live[3] = handled.start.live[2]

\* C28: SubmitInput never terminates the program: for every line submitted
\* while Connected, lines whose first word is a single letter that is no
\* listed verb included, the handler returns, the session stays Connected and
\* the input line is cleared.
C28_SubmitInputReturns ==
    [][\A tokens \in InputLines :
            Submitting(tokens)
            => /\ state'.tag = "Connected"
               /\ state'.input_value = ""]_vars

\* C30: in a Connected session at most one receive is outstanding on the
\* transport of the session at any time, under every interleaving of
\* completions, those left over from an earlier session included.
C30_OneReceiveOutstanding ==
    state.tag = "Connected" => CopiesIn(RecvFuture(state.websocket_recv), futures) <= 1

\* C32: the transport a Connected session owns was established by a connect
\* attempt made with the api key of that session: an attempt started before a
\* LogOut, or in an earlier NotConnected session, is never adopted by a later
\* session that holds a different api key.
C32_TransportOfOwnKey ==
    state.tag = "Connected"
    => /\ state.websocket_recv.api_key = state.api_key
       /\ state.websocket_send.api_key = state.api_key

----------------------------------------------------------------------------
(* Logging out.  The session runs of Spec without the task list, and with  *)
(* a LogOut that update is handed in the variants whose view has no Log    *)
(* Out button.                                                             *)

UserLogOutIdle == state.tag \in {"NotLoggedIn", "Restored"} /\ Press(LogOut)

LogOutNext ==
    \/ OnLoginAttemptComplete
    \/ OnConnectAttemptCompleteOk
    \/ OnConnectAttemptCompleteErr
    \/ OnWebsocketSendComplete
    \/ OnWebsocketRecvComplete
    \/ UserEditEmail
    \/ UserAttemptLogin
    \/ UserRetryConnect
    \/ UserLogOut
    \/ UserLogOutIdle

SpecLogOut == Init /\ [][LogOutNext]_vars

\* C38: LogOut handled in Connected or NotConnected moves the session to
\* NotLoggedIn with blank credentials and, when caching is enabled, deletes
\* the credential cache; LogOut handled in NotLoggedIn or Restored changes
\* nothing; a receive, send or connect completion handled in NotLoggedIn
\* leaves the session as it is.
C38_LogOut ==
    [][/\ (handled'.type = "LogOut" /\ state.tag \in {"Connected", "NotConnected"})
            => /\ state' = not_logged_in
               /\ state'.email = "" /\ state'.password = ""
               /\ cache' = IF nocache THEN cache ELSE None
               /\ futures' = futures
       /\ (handled'.type = "LogOut" /\ state.tag \in {"NotLoggedIn", "Restored"})
            => state' = state /\ cache' = cache /\ futures' = futures
       /\ (/\ state.tag = "NotLoggedIn"
           /\ handled'.type \in {"WebsocketRecvComplete", "WebsocketSendComplete",
                                  "ConnectAttemptComplete"})
            => state' = state /\ cache' = cache]_vars

\* with caching enabled a Connected session has logged out: the cache file is
\* gone and the receive of the session is still in flight
C38_Witness ==
    /\ LastHandled("LogOut", "Connected")
    /\ state = not_logged_in
    /\ ~nocache
    /\ cache = None
    /\ \E f \in BagToSet(futures) : f.fut = "recv"

\* the messages that carry an intent of the user
LocalIntents == {"SubmitInput", "SetActive", "EditActive", "EditInput", "ToggleFinished", "Op"}

\* C35: no local user intent changes the snapshot: SubmitInput, SetActive,
\* EditActive, EditInput, ToggleFinished and Op leave live and finished as
\* they are, and live and finished change only in the step that applies a
\* received operation, so an operation issued locally shows only once the
\* server has sent it back.
C35_IntentsKeepSnapshot ==
    [][/\ (state.tag = "Connected" /\ state'.tag = "Connected" /\ handled'.type \in LocalIntents)
            => state'.snapshot = state.snapshot
       /\ (state.tag = "Connected" /\ state'.tag = "Connected"
                /\ state'.snapshot /= state.snapshot)
            => handled'.type = "WebsocketRecvComplete"]_vars

\* the user pressed the button that finishes the first of two live tasks: the
\* operation is on its way and the task is still live
C35_Witness ==
    /\ handled.type = "Op"
    /\ Len(handled.start.live) = 2
    /\ state.snapshot = handled.start
    /\ \E f \in BagToSet(futures) :
        /\ f.fut = "send"
        /\ f.msg = Text(to_string(WebsocketOp(1, FinishLiveTask(handled.start.live[1].id, "Failed"))))

----------------------------------------------------------------------------
(* The dock.  The cursor enters, moves over and leaves the window, the     *)
(* user expands and collapses the dock and logs in; every call to the      *)
(* window manager can fail.  The history keeps what the call of the last   *)
(* message returned and whether an ungrab has failed so far.               *)

DockTypes == {"FocusDock", "UnfocusDock", "ExpandDock", "CollapseDock"}

DockInit ==
    /\ nocache = TRUE
    /\ cache = None
    /\ state = new(nocache, cache)
    /\ dock = DockClosed
    /\ futures = EmptyBag
    /\ handled = [type |-> "None", tag |-> "None", ok |-> TRUE, ungrab_failed |-> FALSE]

DockStep(m, futs, ok) ==
    LET r == update(m, 1, "t1") IN
    /\ WithinBounds(r.state, futs (+) r.cmd)
    /\ Handle(m, 1, "t1", futs)
    /\ dock' = update_dock(m, dock, ok)
    /\ handled' = [type |-> m.type, tag |-> state.tag, ok |-> ok,
                   ungrab_failed |-> \/ handled.ungrab_failed
                                     \/ ~ok /\ m.type \in {"UnfocusDock", "CollapseDock"}]

\* the window reports the cursor
DockCursor ==
    /\ state.tag /= "Panicked"
    /\ \E event \in {"CursorEntered", "CursorLeft", "CursorMoved"} :
        DockStep(EventOccurred(event), futures, TRUE)

\* the message of a future that only posts it is handled
DockPosted ==
    \E f \in BagToSet(futures) :
        /\ f.fut = "message"
        /\ \E ok \in WmResults(f.message, dock) : DockStep(f.message, Without(futures, f), ok)

\* the button of the collapsed views
DockExpand ==
    /\ ~dock.expanded
    /\ \E ok \in WmResults(ExpandDock, dock) : DockStep(ExpandDock, futures, ok)

\* the Collapse button of the expanded views
DockCollapse ==
    /\ dock.expanded
    /\ \E ok \in WmResults(CollapseDock, dock) : DockStep(CollapseDock, futures, ok)

\* the user logs in from the expanded dock
DockAttemptLogin ==
    /\ dock.expanded
    /\ state.tag = "NotLoggedIn"
    /\ DockStep(AttemptLogin, futures, TRUE)

\* the login and the connect attempt succeed
DockSession ==
    \E f \in BagToSet(futures) :
        \/ /\ f.fut = "do_login"
           /\ DockStep(LoginAttemptComplete(Ok(ApiKey(Some("K1")))), Without(futures, f), TRUE)
        \/ /\ f.fut = "connect_async"
           /\ DockStep(ConnectAttemptComplete(Ok(Halves(new_websocket(f.api_key)))),
                       Without(futures, f), TRUE)

DockNext ==
    \/ DockCursor
    \/ DockPosted
    \/ DockExpand
    \/ DockCollapse
    \/ DockAttemptLogin
    \/ DockSession

SpecDock == DockInit /\ [][DockNext]_vars

\* the keyboard is recorded as grabbed only if the dock is expanded and focused
Consistent(d) == d.grabbed => d.expanded /\ d.focused

\* C39 as the claim has it: after any sequence of FocusDock, UnfocusDock,
\* ExpandDock and CollapseDock the keyboard is recorded as grabbed only while
\* the dock is both expanded and focused.
C39_GrabbedOnlyExpandedFocused == Consistent(dock)

\* C39, amended: as long as no ungrab call has failed, the keyboard is
\* recorded as grabbed only while the dock is both expanded and focused, and
\* a step whose call succeeds keeps that; a failed grab or ungrab call is not
\* fatal, leaves the session as it is and leaves the grabbed flag at its
\* previous value.
C39_GrabbedUnlessUngrabFailed ==
    /\ [](~handled.ungrab_failed => Consistent(dock))
    /\ [][handled'.type \in DockTypes
            => /\ state'.tag = state.tag
               /\ ~handled'.ok => dock'.grabbed = dock.grabbed
               /\ (Consistent(dock) /\ handled'.ok) => Consistent(dock')]_vars

\* the cursor left the expanded dock and the ungrab call failed: the keyboard
\* is still recorded as grabbed
C39_Witness ==
    /\ handled.type = "UnfocusDock"
    /\ ~handled.ok
    /\ dock = [expanded |-> TRUE, focused |-> FALSE, grabbed |-> TRUE]
    /\ state.tag = "Connected"

-----------------------------------------------------------------------------
(* The transport and the receive loop under a fair event loop: claim C31.   *)
(* Each websocket has the frames it has delivered and that no receive has   *)
(* taken yet, and whether it has failed.  handled.wire[n] is the stream of  *)
(* websocket n, handled.done the frames that update has handled in a        *)
(* Connected session.                                                       *)

MaxFrames == 2
MaxSessions == 2

\* the frames the server sends: an operation, a frame that is no data, a
\* Ping, a Close
LiveFrames ==
    {Text(to_string(WebsocketOp(1, DelLiveTask("t1")))), Binary, Ping("p1"), Close(None)}

Wire(q, down) == [q |-> q, down |-> down]

LiveInit ==
    /\ nocache = TRUE
    /\ cache = None
    /\ dock = DockOpen
    /\ state = ConnectedState("K1", Websocket(1, "K1"), Websocket(1, "K1"))
    /\ futures = recv(Websocket(1, "K1"))
    /\ handled = [type |-> "ConnectAttemptComplete", tag |-> "NotConnected",
                  wire |-> [n \in 1..MaxSessions |-> Wire(<<>>, "up")],
                  sessions |-> 1, delivered |-> 0, done |-> {}]

\* update handles m; h is the record of the streams after the step
LiveStep(m, futs, h) ==
    /\ Handle(m, 1, "t1", futs)
    /\ handled' = [h EXCEPT !.type = m.type, !.tag = state.tag]

\* the server sends a frame on the websocket of the session
LiveDeliver ==
    /\ state.tag = "Connected"
    /\ handled.delivered < MaxFrames
    /\ handled.wire[state.websocket_recv.n].down = "up"
    /\ \E fr \in LiveFrames :
        handled' = [handled EXCEPT
                       !.delivered = @ + 1,
                       !.wire[state.websocket_recv.n].q =
                           Append(@, [k |-> handled.delivered + 1, frame |-> fr])]
    /\ UNCHANGED <<state, nocache, cache, futures, dock>>

\* a websocket that something still holds breaks, or the server ends it
LiveFail ==
    /\ \E ws \in OpenSockets, how \in {"err", "end"} :
        /\ handled.wire[ws.n].down = "up"
        /\ handled' = [handled EXCEPT !.wire[ws.n].down = how]
    /\ UNCHANGED <<state, nocache, cache, futures, dock>>

\* what stream.next() yields: the oldest frame not taken yet, else the
\* failure of the stream; on a stream that is up and empty the future waits
NextItem(w) ==
    IF w.q /= <<>> THEN StreamOk(Head(w.q).frame)
    ELSE IF w.down = "err" THEN StreamErr("Connection reset without closing handshake")
    ELSE StreamEnd

\* the receive future on ws takes the next item of the stream and update
\* handles the WebsocketRecvComplete it posts
LiveRecv(ws) ==
    LET w == handled.wire[ws.n]
        mine == state.tag = "Connected" /\ state.websocket_recv = ws
    IN /\ RecvFuture(ws) \in BagToSet(futures)
       /\ w.q /= <<>> \/ w.down /= "up"
       /\ LiveStep(WebsocketRecvComplete(NextItem(w)), Without(futures, RecvFuture(ws)),
                   [handled EXCEPT
                       !.wire[ws.n].q = IF w.q /= <<>> THEN Tail(w.q) ELSE w.q,
                       !.done = IF w.q /= <<>> /\ mine THEN @ \cup {Head(w.q).k} ELSE @])

\* a send future on ws has written its message, or the write fails on a
\* websocket that has failed
LiveSend(ws) ==
    \E f \in BagToSet(futures) :
        /\ f.fut = "send"
        /\ f.ws = ws
        /\ LiveStep(WebsocketSendComplete(IF handled.wire[ws.n].down = "up"
                                          THEN Ok(Unit)
                                          ELSE Err("Connection closed normally")),
                    Without(futures, f), handled)

\* the user presses Retry after the session was lost
LiveRetry ==
    /\ state.tag = "NotConnected"
    /\ handled.sessions < MaxSessions
    /\ BagToSet(futures) \cap {ConnectFuture("K1")} = {}
    /\ LiveStep(RetryConnect, futures, handled)

\* connect_async establishes the next websocket
LiveConnect ==
    /\ ConnectFuture("K1") \in BagToSet(futures)
    /\ LiveStep(ConnectAttemptComplete(Ok(Halves(Websocket(handled.sessions + 1, "K1")))),
                Without(futures, ConnectFuture("K1")),
                [handled EXCEPT !.sessions = @ + 1])

\* the user logs out of the session
LiveLogOut ==
    /\ state.tag = "Connected"
    /\ LiveStep(LogOut, futures, handled)

LiveSockets == {Websocket(n, "K1") : n \in 1..MaxSessions}

LiveRecvs == \E ws \in LiveSockets : LiveRecv(ws)

LiveSends == \E ws \in LiveSockets : LiveSend(ws)

LiveNext ==
    \/ LiveDeliver
    \/ LiveFail
    \/ LiveRecvs
    \/ LiveSends
    \/ LiveRetry
    \/ LiveConnect
    \/ LiveLogOut

\* the runtime polls every spawned future and the event loop hands every
\* posted message to update: when a receive can complete, one does
SpecLive ==
    /\ LiveInit
    /\ [][LiveNext]_vars
    /\ WF_vars(LiveRecvs)

\* frame k waits in the stream of the Connected session
Waiting(k) ==
    /\ state.tag = "Connected"
    /\ \E i \in 1..Len(handled.wire[state.websocket_recv.n].q) :
        handled.wire[state.websocket_recv.n].q[i].k = k

\* the websocket of the Connected session has failed
Failed ==
    /\ state.tag = "Connected"
    /\ handled.wire[state.websocket_recv.n].down /= "up"

\* C31: under a fair event loop a Connected session always has a receive on
\* its stream armed or completing, every frame its websocket delivers is
\* handled unless the session leaves Connected first, and a websocket that
\* reports an error or the end of the stream drives the session out of
\* Connected.
C31_ReceiveLoopLive ==
    /\ [](state.tag = "Connected" => RecvFuture(state.websocket_recv) \in BagToSet(futures))
    /\ \A k \in 1..MaxFrames : Waiting(k) ~> (k \in handled.done \/ state.tag /= "Connected")
    /\ Failed ~> state.tag /= "Connected"

\* the second session has handled a frame and was then lost to an error of
\* its websocket
C31_Witness ==
    /\ handled.type = "WebsocketRecvComplete"
    /\ handled.tag = "Connected"
    /\ state.tag = "NotConnected"
    /\ handled.sessions = 2
    /\ handled.wire[2].down = "err"
    /\ handled.done /= {}

====
